---- MODULE Spec2Model ----
(***************************************************************************)
(* A model of TiledArray's DistArray handle (src/src/TiledArray/           *)
(* dist_array.h) and of the replicated process map (src/src/TiledArray/    *)
(* pmap/replicated_pmap.h).                                                *)
(*                                                                         *)
(* The module holds several specifications over disjoint groups of         *)
(* variables; each specification leaves the other groups unchanged:        *)
(*   SpecCleanup  lazy, world-synchronised destruction of implementations  *)
(*   SpecHandle   the entry checks of the public member functions          *)
(*   SpecFill     set, fill_local/init_tiles and the tile-producing tasks  *)
(*   SpecPmap     process maps and the queries made of them                *)
(*   SpecRepl     make_replicated, the replicator and the fence            *)
(***************************************************************************)
EXTENDS Integers, Sequences, FiniteSets, TLC

(***************************************************************************)
(* Bounds of the model.                                                    *)
(***************************************************************************)
\* the largest world size explored (world.size() is drawn from 1..MaxProcs)
MaxProcs == 2
\* the number of array implementations created collectively on every rank
NArrays == 2
\* the number of lazy_sync calls that may throw in one behaviour
MaxThrows == 1
\* the largest rank (number of modes) of an array's tile range
MaxRank == 2
\* the largest number of tiles along one mode
MaxExt == 2
\* the longest label string passed to operator()
MaxVarsLen == 3
\* the number of tiles of the array that is filled
NHandles == 3
NImpls == 2
NPTasks == 2
NTiles == 2
\* the number of set / init_tiles calls made in one behaviour
MaxCalls == 2
\* the largest number of tiles a process map is built for
MaxSize == 2
\* the number of stripes (inner tiles) of a contraction
SK == 2
\* the number of output tiles of a contraction
SN == 2
\* the largest number of rows of a reduced tensor
MaxBlocks == 2
\* the largest inner_size of a reduced tensor
MaxStride == 2
\* the largest scaling factor of ScalMult
MaxFactor == 2
\* the rank D of Permutation<D>
PermRank == 3
\* the number of dimensions of a Shape
DIM == 2
\* the largest dependency counter of a task before check_dependency
MaxDeps == 2
\* check_dependency calls made on one future tensor
MaxChecks == 3
\* the largest tile norm of a sparse shape, in units of 1/NormDen
MaxNorm == 2
\* the denominator of tile norms and thresholds
NormDen == 2
\* the scalar factor of the contraction (the fourth argument of op)
Alpha == 1

VARIABLES
  \* ---- lazy cleanup (SpecCleanup) ----
  nprocs,            \* world.size()
  initialized,       \* [rank -> BOOLEAN]: madness::initialized() on the rank
  refs,              \* [rank -> [array -> Nat]]: use count of pimpl_ (shared_ptr)
  path,              \* [rank -> [array -> path taken by lazy_deleter]]
  registered,        \* [rank -> [array -> BOOLEAN]]: the lambda is held by lazy_sync
  cbRan,             \* [rank -> [array -> BOOLEAN]]: the lambda has been invoked
  del,               \* [rank -> [array -> Nat]]: times `delete pimpl` was executed
  cleanup_counter_,  \* [rank -> Int]: the static madness::AtomicInt
  decs,              \* [rank -> [array -> Nat]]: decrements made on behalf of the array
  escaped,           \* an exception left lazy_deleter
  throws,            \* exceptions thrown by lazy_sync so far
  \* ---- entry checks of the member functions (SpecHandle) ----
  ndebug,            \* the build defines NDEBUG
  pimpl_,            \* "null" (default constructed) or "impl"
  ext,               \* extents of pimpl_->trange().tiles_range(), lower bound 0
  call,              \* the last member function call and what it did
  \* ---- set, init_tiles and their tasks (SpecFill) ----
  fZero,             \* tiles for which pimpl_->is_zero(index) holds
  fLocal,            \* tiles of the process map's local iteration
  fTile,             \* [tile -> "unset" | "pending" | "ready"]: the tile's future
  fVal,              \* [tile -> fill value held by a ready tile, else 0]
  fTasks,            \* tasks in world.taskq
  fLoop,             \* the init_tiles call in progress, if any
  fCalls,            \* set / init_tiles calls made so far
  fRec,              \* what the current or last call did
  \* ---- process maps (SpecPmap) ----
  pKind,             \* the class of the maps built: "blocked" | "replicated"
  pSize,             \* the size argument of the constructors
  pObj,              \* [rank -> the Pmap object built there, or NoPmap]
  pCall,             \* the last query made of a map and its answer
  pPrev,             \* the query before it
  \* ---- make_replicated (SpecRepl) ----
  rKind0,            \* the class of the array's process map before the call
  rZero,             \* tiles that are zero in the array's shape
  rPmap,             \* [rank -> the process map of the array the handle names]
  rOld,              \* [rank -> [tile -> value held before the call, 0 = none]]
  rNew,              \* [rank -> [tile -> value held by the result array]]
  rUse,              \* [rank -> "old" | "new"]: the array the handle names
  rTodo,             \* [rank -> tiles its replicator has still to broadcast]
  rMsgs,             \* tiles in flight between ranks
  rPc,               \* [rank -> "start" | "called" | "recalled" | "fenced"]
  \* ---- construction (SpecCtor) ----
  policy,            \* the Policy of the array type: "dense" | "sparse"
  cRank,             \* world.rank() of the constructing process
  cCall,             \* the last constructor call, its arguments and its result
  \* ---- contraction evaluator on one rank (SpecSumma) ----
  sLz,               \* stripes k whose left tile L[0,k] is zero in the left shape
  sRz,               \* pairs <<k, j>> whose right tile R[k,j] is zero
  sCz,               \* output columns j that the result shape declares zero
  sPerm,             \* the result permutation is (1,0)
  sLocal,            \* output tiles owned by this rank under the output pmap
  sArr,              \* stripes <<side, k>> whose broadcast has reached this rank
  sDone,             \* contributions <<j, k>> that the local GEMM has processed
  sAcc,              \* [j -> running output of tile j]
  sOut,              \* [j -> the tile of the output future and the times it was set]
  sPc,               \* "made" | "evaluating" | "waited"
  sGot,              \* the last tile obtained by move(i).get(), or NoGot
  \* ---- sparse contraction of one output tile (SpecSparse) ----
  nL,                \* [k -> norm of L[0,k] in the left shape, in 1/NormDen]
  nR,                \* [k -> norm of R[k,j] in the right shape, in 1/NormDen]
  nTau,              \* the threshold of the shapes, in 1/NormDen
  nCol,              \* the output tile j looked at
  nRes,              \* the result shape's verdict on tile j and the tile produced
  \* ---- FutureTensor::check_dependency against Future::set (SpecFuture) ----
  fSet,              \* tensor_.probe(): the future has been set
  fCallbacks,        \* callbacks registered with the future and not yet notified
  fNotified,         \* notifications delivered to the task
  fBase,             \* the task's dependency counter before the first call
  fCounter,          \* the task's dependency counter
  fIncs,             \* task->inc() calls made
  fTask,             \* the argument of the call in progress or last made
  fProbed,           \* what tensor_.probe() returned to that call
  fPc,               \* position of the caller inside check_dependency
  fChecks,           \* check_dependency calls made
  \* ---- Shape::ord / Shape::coord over one orthotope (SpecShape) ----
  oLow,              \* m_orthotope->low()
  oHigh,             \* m_orthotope->high()
  m_linear_step,     \* the cached linear steps
  oCall,             \* the last ord / coord call, its result and the way back
  oNdebug,           \* the build defines NDEBUG: assert does nothing
  m_pred,            \* the predicate of the shape
  itPc,              \* where the iteration from begin() to end() is
  m_current,         \* the iterator's ordinal, -1 at the end
  m_value,           \* the iterator's cached tuple
  itSteps,           \* increments made so far
  itOut,             \* the tuples the iteration has yielded
  \* ---- Permutation<D> (SpecPerm) ----
  permP,             \* a permutation of rank D
  permQ,             \* a second permutation of rank D
  permS,             \* a sequence of length D
  permCall,          \* the last operation applied and what it returned
  \* ---- tensor_reduce (SpecReduce) ----
  tOp,               \* the reduction: "sum" or "product"
  tNested,           \* the argument is a tensor of tensors
  tContig,           \* the argument is a contiguous tensor
  tBlocks,           \* volume / inner_size of the argument
  tStride,           \* inner_size of the argument
  tData,             \* the storage of the argument
  tCall,             \* the last tensor_reduce call and what it returned
  \* ---- Mult / ScalMult tile operations (SpecMult) ----
  mScal,             \* the operation is ScalMult, not Mult
  mFactor,           \* factor_ of ScalMult (1 for Mult)
  mLC,               \* left_is_consumable
  mRC,               \* right_is_consumable
  mLSame,            \* std::is_same<result_type, left_type>
  mRSame,            \* std::is_same<result_type, right_type>
  mLTrait,           \* is_consumable_tile<left_type>
  mRTrait,           \* is_consumable_tile<right_type>
  mConst,            \* the forwarded argument of consume_left / _right is const
  mLeft,             \* the left argument: a tile or ZeroTensor
  mRight,            \* the right argument: a tile or ZeroTensor
  mCall,             \* the last operator() call and its outcome
  \* ---- LeafEngine variable lists (SpecLeaf) ----
  lNdebug,           \* the build defines NDEBUG
  vars_,             \* the leaf's stored label list
  lCall,             \* the last call made on the engine and its outcome
  \* ---- one call of lazy_deleter (SpecDeleter) ----
  dPimpl,            \* the argument: "null" or "impl"
  dInit,             \* madness::initialized()
  dOut,              \* what lazy_sync does if it is called
  dCounter,          \* cleanup_counter_ before the call
  dCall,             \* the call made and its effects
  \* ---- handles sharing implementations on one rank (SpecShare) ----
  hAlive,            \* hAlive[h]: the DistArray object h exists
  hPimpl,            \* hPimpl[h]: its pimpl_, 0 for null
  hUse,              \* hUse[i]: use count of the shared_ptr control block
  hDeleter,          \* hDeleter[i]: calls of lazy_deleter on implementation i
  hTiles,            \* hTiles[i]: tile data objects made for implementation i
  hTask,             \* the task init_tiles added
  hLast,             \* the last operation on the handles
  \* ---- tilearray_future_get_tile called by PaRSEC tasks (SpecParsec) ----
  gSet,              \* the future holds its tile
  gCallbacks,        \* tasks whose reschedule callback the future keeps
  gPc,               \* gPc[t]: where task t is
  gCall,             \* gCall[t]: the last call of tilearray_future_get_tile
  gRuns,             \* gRuns[t]: times the body of task t was entered
  gResched,          \* gResched[t]: calls of __parsec_schedule on task t
  gWhile             \* gWhile[t]: one of them came while t was executing

cleanupVars == <<nprocs, initialized, refs, path, registered, cbRan, del,
                 cleanup_counter_, decs, escaped, throws>>

handleVars == <<ndebug, pimpl_, ext, call>>

fillVars == <<fZero, fLocal, fTile, fVal, fTasks, fLoop, fCalls, fRec>>

pmapVars == <<pKind, pSize, pObj, pCall, pPrev>>

replVars == <<rKind0, rZero, rPmap, rOld, rNew, rUse, rTodo, rMsgs, rPc>>

ctorVars == <<policy, cRank, cCall>>

summaVars == <<sLz, sRz, sCz, sPerm, sLocal, sArr, sDone, sAcc, sOut, sPc,
  sGot>>

sparseVars == <<nL, nR, nTau, nCol, nRes>>

futureVars == <<fSet, fCallbacks, fNotified, fBase, fCounter, fIncs, fTask,
  fProbed, fPc, fChecks>>

shapeVars == <<oLow, oHigh, m_linear_step, oCall, oNdebug, m_pred, itPc,
  m_current, m_value, itSteps, itOut>>

permVars == <<permP, permQ, permS, permCall>>

reduceVars == <<tOp, tNested, tContig, tBlocks, tStride, tData, tCall>>

multVars == <<mScal, mFactor, mLC, mRC, mLSame, mRSame, mLTrait, mRTrait,
  mConst, mLeft, mRight, mCall>>

leafVars == <<lNdebug, vars_, lCall>>

deleterVars == <<dPimpl, dInit, dOut, dCounter, dCall>>

shareVars == <<hAlive, hPimpl, hUse, hDeleter, hTiles, hTask, hLast>>

parsecVars == <<gSet, gCallbacks, gPc, gCall, gRuns, gResched, gWhile>>

notCleanup == <<handleVars, fillVars, pmapVars, replVars, ctorVars,
  summaVars, sparseVars, futureVars, shapeVars, permVars, reduceVars,
  multVars, leafVars, deleterVars, shareVars, parsecVars>>

notHandle == <<cleanupVars, fillVars, pmapVars, replVars, ctorVars,
  summaVars, sparseVars, futureVars, shapeVars, permVars, reduceVars,
  multVars, leafVars, deleterVars, shareVars, parsecVars>>

notFill == <<cleanupVars, handleVars, pmapVars, replVars, ctorVars,
  summaVars, sparseVars, futureVars, shapeVars, permVars, reduceVars,
  multVars, leafVars, deleterVars, shareVars, parsecVars>>

notPmap == <<cleanupVars, handleVars, fillVars, replVars, ctorVars,
  summaVars, sparseVars, futureVars, shapeVars, permVars, reduceVars,
  multVars, leafVars, deleterVars, shareVars, parsecVars>>

notRepl == <<cleanupVars, handleVars, fillVars, pmapVars, ctorVars,
  summaVars, sparseVars, futureVars, shapeVars, permVars, reduceVars,
  multVars, leafVars, deleterVars, shareVars, parsecVars>>

notCtor == <<cleanupVars, handleVars, fillVars, pmapVars, replVars,
  summaVars, sparseVars, futureVars, shapeVars, permVars, reduceVars,
  multVars, leafVars, deleterVars, shareVars, parsecVars>>

notSumma == <<cleanupVars, handleVars, fillVars, pmapVars, replVars,
  ctorVars, sparseVars, futureVars, shapeVars, permVars, reduceVars,
  multVars, leafVars, deleterVars, shareVars, parsecVars>>

notSparse == <<cleanupVars, handleVars, fillVars, pmapVars, replVars,
  ctorVars, summaVars, futureVars, shapeVars, permVars, reduceVars,
  multVars, leafVars, deleterVars, shareVars, parsecVars>>

notFuture == <<cleanupVars, handleVars, fillVars, pmapVars, replVars,
  ctorVars, summaVars, sparseVars, shapeVars, permVars, reduceVars,
  multVars, leafVars, deleterVars, shareVars, parsecVars>>

notShape == <<cleanupVars, handleVars, fillVars, pmapVars, replVars,
  ctorVars, summaVars, sparseVars, futureVars, permVars, reduceVars,
  multVars, leafVars, deleterVars, shareVars, parsecVars>>

notPerm == <<cleanupVars, handleVars, fillVars, pmapVars, replVars,
  ctorVars, summaVars, sparseVars, futureVars, shapeVars, reduceVars,
  multVars, leafVars, deleterVars, shareVars, parsecVars>>

notReduce == <<cleanupVars, handleVars, fillVars, pmapVars, replVars,
  ctorVars, summaVars, sparseVars, futureVars, shapeVars, permVars,
  multVars, leafVars, deleterVars, shareVars, parsecVars>>

notMult == <<cleanupVars, handleVars, fillVars, pmapVars, replVars,
  ctorVars, summaVars, sparseVars, futureVars, shapeVars, permVars,
  reduceVars, leafVars, deleterVars, shareVars, parsecVars>>

notLeaf == <<cleanupVars, handleVars, fillVars, pmapVars, replVars,
  ctorVars, summaVars, sparseVars, futureVars, shapeVars, permVars,
  reduceVars, multVars, deleterVars, shareVars, parsecVars>>

notDeleter == <<cleanupVars, handleVars, fillVars, pmapVars, replVars,
  ctorVars, summaVars, sparseVars, futureVars, shapeVars, permVars,
  reduceVars, multVars, leafVars, shareVars, parsecVars>>

notShare == <<cleanupVars, handleVars, fillVars, pmapVars, replVars,
  ctorVars, summaVars, sparseVars, futureVars, shapeVars, permVars,
  reduceVars, multVars, leafVars, deleterVars, parsecVars>>

notParsec == <<cleanupVars, handleVars, fillVars, pmapVars, replVars,
  ctorVars, summaVars, sparseVars, futureVars, shapeVars, permVars,
  reduceVars, multVars, leafVars, deleterVars, shareVars>>

vars == <<cleanupVars, handleVars, fillVars, pmapVars, replVars, ctorVars,
  summaVars, sparseVars, futureVars, shapeVars, permVars, reduceVars,
  multVars, leafVars, deleterVars, shareVars, parsecVars>>

\* A variable of a group that the running specification does not use.
Unused(v) == v = 0

Ranks == 0 .. (nprocs - 1)
Arrays == 1 .. NArrays

(***************************************************************************)
(* lazy_deleter                                                            *)
(***************************************************************************)
\* What world.gop.lazy_sync(id, lambda) may do to its caller: return after
\* taking the lambda, or throw one of the three classes of exception the
\* handler distinguishes, before or after it has taken the lambda.
ExcKinds == {"MadnessException", "std_exception", "unknown"}

LazySyncOutcomes ==
  {[res |-> "ok", kind |-> "none", took |-> TRUE]} \cup
  {[res |-> "throw", kind |-> k, took |-> t] : k \in ExcKinds, t \in BOOLEAN}

\* A handler list without the final catch(...): an exception that is neither
\* a MadnessException nor a std::exception is not caught.
CatchClause_no_catch_all(kind) ==
  CASE kind = "MadnessException" -> "catch_MadnessException"
    [] kind = "std_exception"    -> "catch_std_exception"
    [] OTHER                     -> "uncaught"

\* The catch clause of lazy_deleter that handles an exception of the kind.
\* madness::MadnessException derives from std::exception; catch(...) takes
\* everything else.
CatchClause(kind) ==
  CASE kind = "MadnessException" -> "catch_MadnessException"
    [] kind = "std_exception"    -> "catch_std_exception"
    [] OTHER                     -> "catch_all"

\* lazy_deleter with `delete pimpl` executed in the call itself on the
\* successful path, instead of being left to the lambda.
lazy_deleter_eager(isInit, out) ==
  IF ~isInit
    THEN [path |-> "uninit", inc |-> 0, dec |-> 0, delNow |-> 1,
          reg |-> FALSE, escapes |-> FALSE]
  ELSE IF out.res = "ok"
    THEN [path |-> "ok", inc |-> 1, dec |-> 0, delNow |-> 1,
          reg |-> TRUE, escapes |-> FALSE]
  ELSE [path |-> IF out.took THEN "throw_after" ELSE "throw_before",
        inc |-> 1, dec |-> 1, delNow |-> 1,
        reg |-> out.took, escapes |-> FALSE]

\* The body of lazy_deleter for a non-null pimpl, as the effects it has before
\* it returns: path taken, whether the counter was incremented and decremented,
\* whether `delete pimpl` ran in the call itself, whether the lambda is left
\* with lazy_sync, and whether an exception leaves the function (it does when
\* no catch clause matches, and then neither the decrement nor the delete of
\* a handler runs).
lazy_deleter(isInit, out) ==
  IF ~isInit
    THEN [path |-> "uninit", inc |-> 0, dec |-> 0, delNow |-> 1,
          reg |-> FALSE, escapes |-> FALSE]
  ELSE IF out.res = "ok"
    THEN [path |-> "ok", inc |-> 1, dec |-> 0, delNow |-> 0,
          reg |-> TRUE, escapes |-> FALSE]
  ELSE IF CatchClause(out.kind) = "uncaught"
    THEN [path |-> IF out.took THEN "throw_after" ELSE "throw_before",
          inc |-> 1, dec |-> 0, delNow |-> 0,
          reg |-> out.took, escapes |-> TRUE]
  ELSE [path |-> IF out.took THEN "throw_after" ELSE "throw_before",
        inc |-> 1, dec |-> 1, delNow |-> 1,
        reg |-> out.took, escapes |-> FALSE]

\* lazy_sync invokes the lambda on a rank once every rank of the world has
\* joined the synchronisation for the id (has handed its lambda to lazy_sync).
SyncComplete(a) == \A r \in Ranks : registered[r][a]

\* The lambda given to lazy_sync: delete pimpl; cleanup_counter_--.
LazyLambda == [delNow |-> 1, dec |-> 1]

CleanupInit ==
  /\ nprocs \in 1 .. MaxProcs
  /\ initialized = [r \in Ranks |-> TRUE]
  /\ refs = [r \in Ranks |-> [a \in Arrays |-> 1]]
  /\ path = [r \in Ranks |-> [a \in Arrays |-> "held"]]
  /\ registered = [r \in Ranks |-> [a \in Arrays |-> FALSE]]
  /\ cbRan = [r \in Ranks |-> [a \in Arrays |-> FALSE]]
  /\ del = [r \in Ranks |-> [a \in Arrays |-> 0]]
  /\ cleanup_counter_ = [r \in Ranks |-> 0]
  /\ decs = [r \in Ranks |-> [a \in Arrays |-> 0]]
  /\ escaped = FALSE
  /\ throws = 0
  /\ Unused(ndebug) /\ Unused(pimpl_) /\ Unused(ext) /\ Unused(call)
  /\ Unused(fZero) /\ Unused(fLocal) /\ Unused(fTile) /\ Unused(fVal)
  /\ Unused(fTasks) /\ Unused(fLoop) /\ Unused(fCalls) /\ Unused(fRec)
  /\ Unused(pKind) /\ Unused(pSize) /\ Unused(pObj) /\ Unused(pCall)
  /\ Unused(pPrev) /\ Unused(rKind0) /\ Unused(rZero) /\ Unused(rPmap)
  /\ Unused(rOld) /\ Unused(rNew) /\ Unused(rUse) /\ Unused(rTodo)
  /\ Unused(rMsgs) /\ Unused(rPc) /\ Unused(policy) /\ Unused(cRank)
  /\ Unused(cCall) /\ Unused(sLz) /\ Unused(sRz) /\ Unused(sCz)
  /\ Unused(sPerm) /\ Unused(sLocal) /\ Unused(sArr) /\ Unused(sDone)
  /\ Unused(sAcc) /\ Unused(sOut) /\ Unused(sPc) /\ Unused(sGot)
  /\ Unused(nL) /\ Unused(nR) /\ Unused(nTau) /\ Unused(nCol)
  /\ Unused(nRes) /\ Unused(fSet) /\ Unused(fCallbacks)
  /\ Unused(fNotified) /\ Unused(fBase) /\ Unused(fCounter)
  /\ Unused(fIncs) /\ Unused(fTask) /\ Unused(fProbed) /\ Unused(fPc)
  /\ Unused(fChecks) /\ Unused(oLow) /\ Unused(oHigh)
  /\ Unused(m_linear_step) /\ Unused(oCall) /\ Unused(oNdebug)
  /\ Unused(m_pred) /\ Unused(itPc) /\ Unused(m_current) /\ Unused(m_value)
  /\ Unused(itSteps) /\ Unused(itOut) /\ Unused(permP) /\ Unused(permQ)
  /\ Unused(permS) /\ Unused(permCall) /\ Unused(tOp) /\ Unused(tNested)
  /\ Unused(tContig) /\ Unused(tBlocks) /\ Unused(tStride) /\ Unused(tData)
  /\ Unused(tCall) /\ Unused(mScal) /\ Unused(mFactor) /\ Unused(mLC)
  /\ Unused(mRC) /\ Unused(mLSame) /\ Unused(mRSame) /\ Unused(mLTrait)
  /\ Unused(mRTrait) /\ Unused(mConst) /\ Unused(mLeft) /\ Unused(mRight)
  /\ Unused(mCall) /\ Unused(lNdebug) /\ Unused(vars_) /\ Unused(lCall)
  /\ Unused(dPimpl) /\ Unused(dInit) /\ Unused(dOut) /\ Unused(dCounter)
  /\ Unused(dCall) /\ Unused(hAlive) /\ Unused(hPimpl) /\ Unused(hUse)
  /\ Unused(hDeleter) /\ Unused(hTiles) /\ Unused(hTask) /\ Unused(hLast)
  /\ Unused(gSet) /\ Unused(gCallbacks) /\ Unused(gPc) /\ Unused(gCall)
  /\ Unused(gRuns) /\ Unused(gResched) /\ Unused(gWhile)

\* ~DistArray (or reassignment of the handle): the shared_ptr releases the
\* implementation and, when it was the last one of the rank, calls
\* lazy_deleter(pimpl).
DropHandle(r, a) ==
  /\ refs[r][a] > 0
  /\ refs' = [refs EXCEPT ![r][a] = @ - 1]
  /\ IF refs[r][a] > 1
       THEN UNCHANGED <<path, registered, del, cleanup_counter_, decs,
                        escaped, throws>>
       ELSE \E out \in LazySyncOutcomes :
              /\ out.res = "throw" => (initialized[r] /\ throws < MaxThrows)
              /\ ~initialized[r] => out.res = "ok"
              /\ LET e == lazy_deleter(initialized[r], out) IN
                   /\ path' = [path EXCEPT ![r][a] = e.path]
                   /\ registered' = [registered EXCEPT ![r][a] = e.reg]
                   /\ del' = [del EXCEPT ![r][a] = @ + e.delNow]
                   /\ cleanup_counter_' =
                        [cleanup_counter_ EXCEPT ![r] = @ + e.inc - e.dec]
                   /\ decs' = [decs EXCEPT ![r][a] = @ + e.dec]
                   /\ escaped' = (escaped \/ e.escapes)
                   /\ throws' = IF out.res = "throw" THEN throws + 1 ELSE throws
  /\ UNCHANGED <<nprocs, initialized, cbRan>>

\* lazy_sync runs the lambda of rank r for array a.
SyncCallback(r, a) ==
  /\ initialized[r]
  /\ registered[r][a]
  /\ ~cbRan[r][a]
  /\ SyncComplete(a)
  /\ cbRan' = [cbRan EXCEPT ![r][a] = TRUE]
  /\ del' = [del EXCEPT ![r][a] = @ + LazyLambda.delNow]
  /\ cleanup_counter_' = [cleanup_counter_ EXCEPT ![r] = @ - LazyLambda.dec]
  /\ decs' = [decs EXCEPT ![r][a] = @ + LazyLambda.dec]
  /\ UNCHANGED <<nprocs, initialized, refs, path, registered, escaped,
                 throws>>

\* madness::finalize() on rank r: madness::initialized() turns false.
Finalize(r) ==
  /\ initialized[r]
  /\ initialized' = [initialized EXCEPT ![r] = FALSE]
  /\ UNCHANGED <<nprocs, refs, path, registered, cbRan, del, cleanup_counter_,
                 decs, escaped, throws>>

\* wait_for_lazy_cleanup(world): world.await returns once it sees
\* cleanup_counter_ == 0, and the function returns normally.  It changes
\* nothing.
wait_for_lazy_cleanup(r) ==
  /\ initialized[r]
  /\ cleanup_counter_[r] = 0
  /\ UNCHANGED vars

\* wait_for_lazy_cleanup(world) times out with cleanups pending: world.await
\* throws, the function prints the pending count and rethrows.
WaitTimeout(r) ==
  /\ initialized[r]
  /\ cleanup_counter_[r] # 0
  /\ UNCHANGED vars

CleanupNext ==
  \/ \E r \in Ranks, a \in Arrays : DropHandle(r, a) /\ UNCHANGED notCleanup
  \/ \E r \in Ranks, a \in Arrays : SyncCallback(r, a) /\ UNCHANGED notCleanup
  \/ \E r \in Ranks : Finalize(r) /\ UNCHANGED notCleanup
  \/ \E r \in Ranks : wait_for_lazy_cleanup(r)
  \/ \E r \in Ranks : WaitTimeout(r)

(***************************************************************************)
(* The public member functions of DistArray, up to the point where they    *)
(* hand over to the implementation (pimpl_->...).                          *)
(***************************************************************************)
\* Member functions whose first statement is check_pimpl().
CheckedOps == {"begin", "end", "init_tiles", "fill_local", "fill", "trange",
               "range", "elements_range", "size", "world", "get_world",
               "pmap", "get_pmap", "is_dense", "make_replicated"}
\* Member functions that dereference pimpl_ without a check.
UncheckedOps == {"id", "shape", "get_shape"}
\* Member functions whose first statement is check_index(i).  The
\* std::initializer_list overloads forward to these.
IndexOps == {"find", "set_iter", "set_value", "set_future", "set_tile",
             "owner", "is_local", "is_zero"}
\* Member functions that only look at the handle.
HandleOnlyOps == {"copy", "is_initialized"}

\* Tile ranges [0, e[1]) x ... x [0, e[d]).
TileRanges ==
  UNION {[1 .. d -> 1 .. MaxExt] : d \in 1 .. MaxRank}

RECURSIVE Volume(_)
Volume(e) == IF e = <<>> THEN 1 ELSE Head(e) * Volume(Tail(e))

\* Indices a caller may pass: an ordinal, or a coordinate of any length.
NoIndex == [kind |-> "none", ord |-> 0, coord |-> <<>>]
Ordinals == {[kind |-> "ord", ord |-> n, coord |-> <<>>] :
               n \in -1 .. (MaxExt * MaxExt + 1)}
Coordinates ==
  {[kind |-> "coord", ord |-> 0, coord |-> c] :
     c \in UNION {[1 .. d -> -1 .. MaxExt] : d \in 0 .. (MaxRank + 1)}}

\* Label strings: sequences of the characters "i" and ",".
VarStrings == UNION {[1 .. n -> {"i", ","}] : n \in 0 .. MaxVarsLen}

\* pimpl_->range().includes(i), as the set of answers it may give.  For an
\* ordinal and for a coordinate of the range's rank it is membership in the
\* box; for a coordinate of another length the answer is not determined.
RangeIncludes(e, idx) ==
  IF idx.kind = "ord"
    THEN {0 <= idx.ord /\ idx.ord < Volume(e)}
  ELSE IF Len(idx.coord) = Len(e)
    THEN {\A d \in 1 .. Len(e) : 0 <= idx.coord[d] /\ idx.coord[d] < e[d]}
  ELSE BOOLEAN

\* check_pimpl(): TA_USER_ASSERT(pimpl_, ...).
check_pimpl(p) == IF p = "null" THEN "uninit_error" ELSE "ok"

\* check_index without the comparison of i.size() with the rank.
check_index_no_dim(p, e, idx, inc) ==
  IF check_pimpl(p) # "ok" THEN check_pimpl(p)
  ELSE IF ~inc THEN "range_error"
  ELSE "ok"

\* check_index(i): check_pimpl(), then includes(i), then (coordinate indices
\* only) i.size() against the rank.  inc is the answer of includes(i).
check_index(p, e, idx, inc) ==
  IF check_pimpl(p) # "ok" THEN check_pimpl(p)
  ELSE IF ~inc THEN "range_error"
  ELSE IF idx.kind = "coord" /\ Len(idx.coord) # Len(e) THEN "dim_error"
  ELSE "ok"

\* The count of operator() without the leading 1u.
NumVars_commas_only(v) == Cardinality({i \in 1 .. Len(v) : v[i] = ","})

\* n of operator(): 1u + std::count_if(vars, c == ',').
NumVars(v) == 1 + Cardinality({i \in 1 .. Len(v) : v[i] = ","})

\* The #ifndef NDEBUG block of operator()(vars): true when it raises.
VarsCheckFails(nd, p, e, v) ==
  /\ ~nd
  /\ p # "null"
  /\ NumVars(v) # Len(e)

HandleInit ==
  /\ ndebug \in BOOLEAN
  /\ \/ pimpl_ = "null" /\ ext = <<>>
     \/ pimpl_ = "impl" /\ ext \in TileRanges
  /\ call = [op |-> "none", idx |-> NoIndex, vars |-> <<>>,
             outcome |-> "none", touched |-> FALSE]
  /\ Unused(nprocs) /\ Unused(initialized) /\ Unused(refs) /\ Unused(path)
  /\ Unused(registered) /\ Unused(cbRan) /\ Unused(del)
  /\ Unused(cleanup_counter_) /\ Unused(decs) /\ Unused(escaped)
  /\ Unused(throws) /\ Unused(fZero) /\ Unused(fLocal) /\ Unused(fTile)
  /\ Unused(fVal) /\ Unused(fTasks) /\ Unused(fLoop) /\ Unused(fCalls)
  /\ Unused(fRec) /\ Unused(pKind) /\ Unused(pSize) /\ Unused(pObj)
  /\ Unused(pCall) /\ Unused(pPrev) /\ Unused(rKind0) /\ Unused(rZero)
  /\ Unused(rPmap) /\ Unused(rOld) /\ Unused(rNew) /\ Unused(rUse)
  /\ Unused(rTodo) /\ Unused(rMsgs) /\ Unused(rPc) /\ Unused(policy)
  /\ Unused(cRank) /\ Unused(cCall) /\ Unused(sLz) /\ Unused(sRz)
  /\ Unused(sCz) /\ Unused(sPerm) /\ Unused(sLocal) /\ Unused(sArr)
  /\ Unused(sDone) /\ Unused(sAcc) /\ Unused(sOut) /\ Unused(sPc)
  /\ Unused(sGot) /\ Unused(nL) /\ Unused(nR) /\ Unused(nTau)
  /\ Unused(nCol) /\ Unused(nRes) /\ Unused(fSet) /\ Unused(fCallbacks)
  /\ Unused(fNotified) /\ Unused(fBase) /\ Unused(fCounter)
  /\ Unused(fIncs) /\ Unused(fTask) /\ Unused(fProbed) /\ Unused(fPc)
  /\ Unused(fChecks) /\ Unused(oLow) /\ Unused(oHigh)
  /\ Unused(m_linear_step) /\ Unused(oCall) /\ Unused(oNdebug)
  /\ Unused(m_pred) /\ Unused(itPc) /\ Unused(m_current) /\ Unused(m_value)
  /\ Unused(itSteps) /\ Unused(itOut) /\ Unused(permP) /\ Unused(permQ)
  /\ Unused(permS) /\ Unused(permCall) /\ Unused(tOp) /\ Unused(tNested)
  /\ Unused(tContig) /\ Unused(tBlocks) /\ Unused(tStride) /\ Unused(tData)
  /\ Unused(tCall) /\ Unused(mScal) /\ Unused(mFactor) /\ Unused(mLC)
  /\ Unused(mRC) /\ Unused(mLSame) /\ Unused(mRSame) /\ Unused(mLTrait)
  /\ Unused(mRTrait) /\ Unused(mConst) /\ Unused(mLeft) /\ Unused(mRight)
  /\ Unused(mCall) /\ Unused(lNdebug) /\ Unused(vars_) /\ Unused(lCall)
  /\ Unused(dPimpl) /\ Unused(dInit) /\ Unused(dOut) /\ Unused(dCounter)
  /\ Unused(dCall) /\ Unused(hAlive) /\ Unused(hPimpl) /\ Unused(hUse)
  /\ Unused(hDeleter) /\ Unused(hTiles) /\ Unused(hTask) /\ Unused(hLast)
  /\ Unused(gSet) /\ Unused(gCallbacks) /\ Unused(gPc) /\ Unused(gCall)
  /\ Unused(gRuns) /\ Unused(gResched) /\ Unused(gWhile)

\* A member function that starts with check_pimpl() and then uses pimpl_.
CallChecked(op) ==
  /\ call.op = "none"
  /\ op \in CheckedOps
  /\ call' = [op |-> op, idx |-> NoIndex, vars |-> <<>>,
              outcome |-> check_pimpl(pimpl_),
              touched |-> (check_pimpl(pimpl_) = "ok")]
  /\ UNCHANGED <<ndebug, pimpl_, ext>>

\* id(), shape(), get_shape(): return pimpl_->...() at once.  With a null
\* pimpl_ this is a null dereference, whose outcome is not defined.
CallUnchecked(op) ==
  /\ call.op = "none"
  /\ op \in UncheckedOps
  /\ \E ub \in {"null_deref_crash", "null_deref_garbage"} :
       call' = [op |-> op, idx |-> NoIndex, vars |-> <<>>,
                outcome |-> IF pimpl_ = "null" THEN ub ELSE "ok",
                touched |-> TRUE]
  /\ UNCHANGED <<ndebug, pimpl_, ext>>

\* find, set, owner, is_local, is_zero: check_index(i), then pimpl_->...(i).
CallIndexed(op, idx) ==
  /\ call.op = "none"
  /\ op \in IndexOps
  /\ idx \in Ordinals \cup Coordinates
  /\ \E inc \in RangeIncludes(ext, idx) :
       call' = [op |-> op, idx |-> idx, vars |-> <<>>,
                outcome |-> check_index(pimpl_, ext, idx, inc),
                touched |-> (check_index(pimpl_, ext, idx, inc) = "ok")]
  /\ UNCHANGED <<ndebug, pimpl_, ext>>

\* operator()(vars): the label count check of debug builds on an initialised
\* array, then TsrExpr(*this, vars).
CallVars(v) ==
  /\ call.op = "none"
  /\ v \in VarStrings
  /\ call' = [op |-> "call_vars", idx |-> NoIndex, vars |-> v,
              outcome |-> IF VarsCheckFails(ndebug, pimpl_, ext, v)
                            THEN "label_error" ELSE "expression",
              touched |-> (~ndebug /\ pimpl_ # "null")]
  /\ UNCHANGED <<ndebug, pimpl_, ext>>

\* DistArray(const DistArray_&), is_initialized(): pimpl_ itself only.
CallHandleOnly(op) ==
  /\ call.op = "none"
  /\ op \in HandleOnlyOps
  /\ call' = [op |-> op, idx |-> NoIndex, vars |-> <<>>,
              outcome |-> "ok", touched |-> FALSE]
  /\ UNCHANGED <<ndebug, pimpl_, ext>>

\* The call has returned (or its error has been handled); the handle is
\* ready for the next call.
CallReturn ==
  /\ call.op # "none"
  /\ call' = [op |-> "none", idx |-> NoIndex, vars |-> <<>>,
              outcome |-> "none", touched |-> FALSE]
  /\ UNCHANGED <<ndebug, pimpl_, ext>>

\* The handle is used by one thread: a member function is called only when
\* the previous call has returned.
NoCallActive == call.op = "none"

HandleNext ==
  \/ /\ NoCallActive
     /\ \E op \in CheckedOps : CallChecked(op)
     /\ UNCHANGED notHandle
  \/ /\ NoCallActive
     /\ \E op \in UncheckedOps : CallUnchecked(op)
     /\ UNCHANGED notHandle
  \/ /\ NoCallActive
     /\ \E op \in IndexOps, idx \in Ordinals \cup Coordinates :
          CallIndexed(op, idx)
     /\ UNCHANGED notHandle
  \/ /\ NoCallActive
     /\ \E v \in VarStrings : CallVars(v)
     /\ UNCHANGED notHandle
  \/ /\ NoCallActive
     /\ \E op \in HandleOnlyOps : CallHandleOnly(op)
     /\ UNCHANGED notHandle
  \/ CallReturn /\ UNCHANGED notHandle

(***************************************************************************)
(* set(i, value), fill_local / init_tiles and the tasks they schedule, on  *)
(* one rank of an initialised array.                                       *)
(***************************************************************************)
Tiles == 0 .. (NTiles - 1)
FillValues == {1, 2}
IdleLoop == [active |-> FALSE, it |-> 0, skip |-> FALSE, value |-> 0,
             stage |-> "none"]
NoRec == [op |-> "none", skip |-> FALSE, start |-> {}, scheduled |-> {},
          setCalled |-> {}, error |-> "none", errTile |-> -1]

\* The tile's future has been assigned: a value, or the result of a task
\* that has not produced it yet.
Assigned(t) == fTile[t] # "unset"

\* find(index).probe(): the future of the tile already holds its value.
Probe(t) == fTile[t] = "ready"

\* pimpl_->set(index, tile): each tile may be set at most once.
ArrayImpl_set(t) == IF Assigned(t) THEN "already_set" ELSE "ok"

\* The skip test with "has been assigned" in place of probe().
SkipTile_if_assigned(t) == Assigned(t)

\* The test of init_tiles under skip_set: fut.probe() => continue.
SkipTile(t) == Probe(t)

\* ++it on the process map's local iterator: the next local index, or
\* NTiles for end().
NextLocal(t) ==
  IF \E u \in fLocal : u > t
    THEN CHOOSE u \in fLocal : u > t /\ \A w \in fLocal : w > t => u <= w
    ELSE NTiles

\* pmap()->begin().
FirstLocal == NextLocal(-1)

FillInit ==
  /\ fZero \in SUBSET Tiles
  /\ fLocal \in SUBSET Tiles
  /\ fTile = [t \in Tiles |-> "unset"]
  /\ fVal = [t \in Tiles |-> 0]
  /\ fTasks = {}
  /\ fLoop = IdleLoop
  /\ fCalls = 0
  /\ fRec = NoRec
  /\ Unused(nprocs) /\ Unused(initialized) /\ Unused(refs) /\ Unused(path)
  /\ Unused(registered) /\ Unused(cbRan) /\ Unused(del)
  /\ Unused(cleanup_counter_) /\ Unused(decs) /\ Unused(escaped)
  /\ Unused(throws) /\ Unused(ndebug) /\ Unused(pimpl_) /\ Unused(ext)
  /\ Unused(call) /\ Unused(pKind) /\ Unused(pSize) /\ Unused(pObj)
  /\ Unused(pCall) /\ Unused(pPrev) /\ Unused(rKind0) /\ Unused(rZero)
  /\ Unused(rPmap) /\ Unused(rOld) /\ Unused(rNew) /\ Unused(rUse)
  /\ Unused(rTodo) /\ Unused(rMsgs) /\ Unused(rPc) /\ Unused(policy)
  /\ Unused(cRank) /\ Unused(cCall) /\ Unused(sLz) /\ Unused(sRz)
  /\ Unused(sCz) /\ Unused(sPerm) /\ Unused(sLocal) /\ Unused(sArr)
  /\ Unused(sDone) /\ Unused(sAcc) /\ Unused(sOut) /\ Unused(sPc)
  /\ Unused(sGot) /\ Unused(nL) /\ Unused(nR) /\ Unused(nTau)
  /\ Unused(nCol) /\ Unused(nRes) /\ Unused(fSet) /\ Unused(fCallbacks)
  /\ Unused(fNotified) /\ Unused(fBase) /\ Unused(fCounter)
  /\ Unused(fIncs) /\ Unused(fTask) /\ Unused(fProbed) /\ Unused(fPc)
  /\ Unused(fChecks) /\ Unused(oLow) /\ Unused(oHigh)
  /\ Unused(m_linear_step) /\ Unused(oCall) /\ Unused(oNdebug)
  /\ Unused(m_pred) /\ Unused(itPc) /\ Unused(m_current) /\ Unused(m_value)
  /\ Unused(itSteps) /\ Unused(itOut) /\ Unused(permP) /\ Unused(permQ)
  /\ Unused(permS) /\ Unused(permCall) /\ Unused(tOp) /\ Unused(tNested)
  /\ Unused(tContig) /\ Unused(tBlocks) /\ Unused(tStride) /\ Unused(tData)
  /\ Unused(tCall) /\ Unused(mScal) /\ Unused(mFactor) /\ Unused(mLC)
  /\ Unused(mRC) /\ Unused(mLSame) /\ Unused(mRSame) /\ Unused(mLTrait)
  /\ Unused(mRTrait) /\ Unused(mConst) /\ Unused(mLeft) /\ Unused(mRight)
  /\ Unused(mCall) /\ Unused(lNdebug) /\ Unused(vars_) /\ Unused(lCall)
  /\ Unused(dPimpl) /\ Unused(dInit) /\ Unused(dOut) /\ Unused(dCounter)
  /\ Unused(dCall) /\ Unused(hAlive) /\ Unused(hPimpl) /\ Unused(hUse)
  /\ Unused(hDeleter) /\ Unused(hTiles) /\ Unused(hTask) /\ Unused(hLast)
  /\ Unused(gSet) /\ Unused(gCallbacks) /\ Unused(gPc) /\ Unused(gCall)
  /\ Unused(gRuns) /\ Unused(gResched) /\ Unused(gWhile)

\* set(i, value) on a local non-zero tile: pimpl_->set(i, Tile(range, value)).
\* The implementation refuses a tile that has been assigned already.
SetTile(t, v) ==
  /\ ~fLoop.active
  /\ fCalls < MaxCalls
  /\ t \in fLocal \ fZero
  /\ fCalls' = fCalls + 1
  /\ IF ArrayImpl_set(t) # "ok"
       THEN /\ fRec' = [NoRec EXCEPT !.op = "set", !.start = {t},
                                     !.setCalled = {t},
                                     !.error = ArrayImpl_set(t), !.errTile = t]
            /\ UNCHANGED <<fTile, fVal>>
       ELSE /\ fRec' = [NoRec EXCEPT !.op = "set", !.setCalled = {t}]
            /\ fTile' = [fTile EXCEPT ![t] = "ready"]
            /\ fVal' = [fVal EXCEPT ![t] = v]
  /\ UNCHANGED <<fZero, fLocal, fTasks, fLoop>>

\* fill_local(value, skip_set) = init_tiles(op, skip_set) is entered:
\* check_pimpl(), it = pimpl_->pmap()->begin().
InitTilesCall(v, skip) ==
  /\ ~fLoop.active
  /\ fCalls < MaxCalls
  /\ fCalls' = fCalls + 1
  /\ fLoop' = [active |-> TRUE, it |-> FirstLocal, skip |-> skip,
               value |-> v, stage |-> "top"]
  /\ fRec' = [NoRec EXCEPT !.op = "init_tiles", !.skip = skip,
                           !.start = {t \in Tiles : Assigned(t)}]
  /\ UNCHANGED <<fZero, fLocal, fTile, fVal, fTasks>>

\* Top of one iteration of the loop: it != end, the is_zero test and, under
\* skip_set, find(index).probe().
InitTilesTop ==
  /\ fLoop.active
  /\ fLoop.stage = "top"
  /\ IF fLoop.it >= NTiles
       THEN fLoop' = IdleLoop
       ELSE IF fLoop.it \in fZero \/ (fLoop.skip /\ SkipTile(fLoop.it))
         THEN fLoop' = [fLoop EXCEPT !.it = NextLocal(fLoop.it)]
         ELSE fLoop' = [fLoop EXCEPT !.stage = "add"]
  /\ UNCHANGED <<fZero, fLocal, fTile, fVal, fTasks, fCalls, fRec>>

\* Rest of the iteration: taskq.add(lambda, this, index, op), then
\* set(index, tile).  When the implementation refuses the set the exception
\* leaves init_tiles; the task stays in the queue with a future nobody holds.
InitTilesAdd ==
  /\ fLoop.active
  /\ fLoop.stage = "add"
  /\ LET t == fLoop.it IN
       IF ArrayImpl_set(t) # "ok"
         THEN /\ fTasks' = fTasks \cup
                   {[index |-> t, value |-> fLoop.value, bound |-> FALSE]}
              /\ fRec' = [fRec EXCEPT !.scheduled = @ \cup {t},
                                      !.setCalled = @ \cup {t},
                                      !.error = ArrayImpl_set(t), !.errTile = t]
              /\ fLoop' = IdleLoop
              /\ UNCHANGED fTile
         ELSE /\ fTasks' = fTasks \cup
                   {[index |-> t, value |-> fLoop.value, bound |-> TRUE]}
              /\ fRec' = [fRec EXCEPT !.scheduled = @ \cup {t},
                                      !.setCalled = @ \cup {t}]
              /\ fTile' = [fTile EXCEPT ![t] = "pending"]
              /\ fLoop' = [fLoop EXCEPT !.it = NextLocal(t), !.stage = "top"]
  /\ UNCHANGED <<fZero, fLocal, fVal, fCalls>>

\* A task that leaves the queue without producing its result.
RunTask_lost(task) ==
  /\ task \in fTasks
  /\ fTasks' = fTasks \ {task}
  /\ UNCHANGED <<fZero, fLocal, fTile, fVal, fLoop, fCalls, fRec>>

\* A worker thread runs a task: op(array->trange().make_tile_range(index));
\* the result sets the task's future, and with it the tile bound to it.
RunTask(task) ==
  /\ task \in fTasks
  /\ fTasks' = fTasks \ {task}
  /\ IF task.bound
       THEN /\ fTile' = [fTile EXCEPT ![task.index] = "ready"]
            /\ fVal' = [fVal EXCEPT ![task.index] = task.value]
       ELSE UNCHANGED <<fTile, fVal>>
  /\ UNCHANGED <<fZero, fLocal, fLoop, fCalls, fRec>>

FillNext ==
  \/ \E t \in Tiles, v \in FillValues :
       SetTile(t, v) /\ UNCHANGED notFill
  \/ \E v \in FillValues, skip \in BOOLEAN :
       InitTilesCall(v, skip) /\ UNCHANGED notFill
  \/ InitTilesTop /\ UNCHANGED notFill
  \/ InitTilesAdd /\ UNCHANGED notFill
  \/ \E task \in fTasks : RunTask(task) /\ UNCHANGED notFill

(***************************************************************************)
(* Process maps.  A map object is the record of the members of Pmap.       *)
(***************************************************************************)
PmapKinds == {"blocked", "replicated"}
NoPmap == [kind |-> "none", rank_ |-> 0, procs_ |-> 0, size_ |-> 0,
           local_ |-> <<>>]
NoQuery == [op |-> "none", rank |-> 0, tile |-> 0, ans |-> "none"]

\* Pmap(world, size): rank_(world.rank()), procs_(world.size()), size_(size),
\* local_ empty.
Pmap(kind, rank, procs, size) ==
  [kind |-> kind, rank_ |-> rank, procs_ |-> procs, size_ |-> size,
   local_ |-> <<>>]

\* ReplicatedPmap::owner: TA_ASSERT(tile < size_); return rank_.
ReplicatedPmap_owner(p, tile) ==
  IF tile < p.size_ THEN p.rank_ ELSE "assert_fail"

\* ReplicatedPmap::is_local: TA_ASSERT(tile < size_); return true.
ReplicatedPmap_is_local(p, tile) ==
  IF tile < p.size_ THEN TRUE ELSE "assert_fail"

\* The loop of the ReplicatedPmap constructor from index i on:
\* TA_ASSERT(owner(i) == rank_); local_.push_back(i).
RECURSIVE ReplicatedPmapLoop(_, _)
ReplicatedPmapLoop(p, i) ==
  IF i < p.size_
    THEN IF ReplicatedPmap_owner(p, i) = p.rank_
           THEN ReplicatedPmapLoop([p EXCEPT !.local_ = Append(@, i)], i + 1)
           ELSE [p EXCEPT !.kind = "assert_fail"]
    ELSE p

\* The constructor with its loop started at index 1.
ReplicatedPmap_from_one(rank, procs, size) ==
  ReplicatedPmapLoop(Pmap("replicated", rank, procs, size), 1)

\* ReplicatedPmap(world, size).
ReplicatedPmap(rank, procs, size) ==
  ReplicatedPmapLoop(Pmap("replicated", rank, procs, size), 0)

\* The blocked map: contiguous ranges of block_size tiles per rank.
BlockSize(procs, size) == (size + procs - 1) \div procs

BlockedPmap_owner(p, tile) ==
  IF tile < p.size_
    THEN tile \div BlockSize(p.procs_, p.size_)
    ELSE "assert_fail"

BlockedPmap_is_local(p, tile) ==
  IF tile < p.size_ THEN BlockedPmap_owner(p, tile) = p.rank_
  ELSE "assert_fail"

RECURSIVE BlockedPmapLoop(_, _)
BlockedPmapLoop(p, i) ==
  IF i < p.size_
    THEN BlockedPmapLoop(
           IF BlockedPmap_owner(p, i) = p.rank_
             THEN [p EXCEPT !.local_ = Append(@, i)] ELSE p, i + 1)
    ELSE p

BlockedPmap(rank, procs, size) ==
  BlockedPmapLoop(Pmap("blocked", rank, procs, size), 0)

\* A virtual owner that names rank 0 on every process.
owner_always_zero(p, tile) == IF tile < p.size_ THEN 0 ELSE "assert_fail"

\* The virtual calls on a pmap_interface.
owner(p, tile) ==
  IF p.kind = "replicated" THEN ReplicatedPmap_owner(p, tile)
  ELSE BlockedPmap_owner(p, tile)

is_local(p, tile) ==
  IF p.kind = "replicated" THEN ReplicatedPmap_is_local(p, tile)
  ELSE BlockedPmap_is_local(p, tile)

\* ReplicatedPmap::is_replicated returns true, Pmap::is_replicated false.
is_replicated(p) == p.kind = "replicated"

MakePmap(kind, rank, procs, size) ==
  IF kind = "replicated" THEN ReplicatedPmap(rank, procs, size)
  ELSE BlockedPmap(rank, procs, size)

PmapInit ==
  /\ nprocs \in 1 .. MaxProcs
  /\ pKind \in PmapKinds
  /\ pSize \in 0 .. MaxSize
  /\ pObj = [r \in 0 .. (MaxProcs - 1) |-> NoPmap]
  /\ pCall = NoQuery
  /\ pPrev = NoQuery
  /\ Unused(initialized) /\ Unused(refs) /\ Unused(path)
  /\ Unused(registered) /\ Unused(cbRan) /\ Unused(del)
  /\ Unused(cleanup_counter_) /\ Unused(decs) /\ Unused(escaped)
  /\ Unused(throws) /\ Unused(ndebug) /\ Unused(pimpl_) /\ Unused(ext)
  /\ Unused(call) /\ Unused(fZero) /\ Unused(fLocal) /\ Unused(fTile)
  /\ Unused(fVal) /\ Unused(fTasks) /\ Unused(fLoop) /\ Unused(fCalls)
  /\ Unused(fRec) /\ Unused(rKind0) /\ Unused(rZero) /\ Unused(rPmap)
  /\ Unused(rOld) /\ Unused(rNew) /\ Unused(rUse) /\ Unused(rTodo)
  /\ Unused(rMsgs) /\ Unused(rPc) /\ Unused(policy) /\ Unused(cRank)
  /\ Unused(cCall) /\ Unused(sLz) /\ Unused(sRz) /\ Unused(sCz)
  /\ Unused(sPerm) /\ Unused(sLocal) /\ Unused(sArr) /\ Unused(sDone)
  /\ Unused(sAcc) /\ Unused(sOut) /\ Unused(sPc) /\ Unused(sGot)
  /\ Unused(nL) /\ Unused(nR) /\ Unused(nTau) /\ Unused(nCol)
  /\ Unused(nRes) /\ Unused(fSet) /\ Unused(fCallbacks)
  /\ Unused(fNotified) /\ Unused(fBase) /\ Unused(fCounter)
  /\ Unused(fIncs) /\ Unused(fTask) /\ Unused(fProbed) /\ Unused(fPc)
  /\ Unused(fChecks) /\ Unused(oLow) /\ Unused(oHigh)
  /\ Unused(m_linear_step) /\ Unused(oCall) /\ Unused(oNdebug)
  /\ Unused(m_pred) /\ Unused(itPc) /\ Unused(m_current) /\ Unused(m_value)
  /\ Unused(itSteps) /\ Unused(itOut) /\ Unused(permP) /\ Unused(permQ)
  /\ Unused(permS) /\ Unused(permCall) /\ Unused(tOp) /\ Unused(tNested)
  /\ Unused(tContig) /\ Unused(tBlocks) /\ Unused(tStride) /\ Unused(tData)
  /\ Unused(tCall) /\ Unused(mScal) /\ Unused(mFactor) /\ Unused(mLC)
  /\ Unused(mRC) /\ Unused(mLSame) /\ Unused(mRSame) /\ Unused(mLTrait)
  /\ Unused(mRTrait) /\ Unused(mConst) /\ Unused(mLeft) /\ Unused(mRight)
  /\ Unused(mCall) /\ Unused(lNdebug) /\ Unused(vars_) /\ Unused(lCall)
  /\ Unused(dPimpl) /\ Unused(dInit) /\ Unused(dOut) /\ Unused(dCounter)
  /\ Unused(dCall) /\ Unused(hAlive) /\ Unused(hPimpl) /\ Unused(hUse)
  /\ Unused(hDeleter) /\ Unused(hTiles) /\ Unused(hTask) /\ Unused(hLast)
  /\ Unused(gSet) /\ Unused(gCallbacks) /\ Unused(gPc) /\ Unused(gCall)
  /\ Unused(gRuns) /\ Unused(gResched) /\ Unused(gWhile)

\* Rank r constructs its map object.
ConstructPmap(r) ==
  /\ pObj[r] = NoPmap
  /\ pObj' = [pObj EXCEPT ![r] = MakePmap(pKind, r, nprocs, pSize)]
  /\ UNCHANGED <<pKind, pSize, pCall, pPrev>>

Query(r, op, tile, ans) ==
  /\ pObj[r].kind \in PmapKinds
  /\ pPrev' = pCall
  /\ pCall' = [op |-> op, rank |-> r, tile |-> tile, ans |-> ans]
  /\ UNCHANGED <<pKind, pSize, pObj>>

\* pmap->owner(tile) on rank r.
QueryOwner(r, tile) == Query(r, "owner", tile, owner(pObj[r], tile))

\* pmap->is_local(tile) on rank r.
QueryIsLocal(r, tile) == Query(r, "is_local", tile, is_local(pObj[r], tile))

\* for(it = pmap->begin(); it != pmap->end(); ++it) on rank r: the indices
\* visited, in order.
Iterate(r) == Query(r, "iterate", 0, pObj[r].local_)

PmapNext ==
  \/ \E r \in Ranks :
       ConstructPmap(r) /\ UNCHANGED notPmap
  \/ \E r \in Ranks, tile \in 0 .. pSize :
       QueryOwner(r, tile) /\ UNCHANGED notPmap
  \/ \E r \in Ranks, tile \in 0 .. pSize :
       QueryIsLocal(r, tile) /\ UNCHANGED notPmap
  \/ \E r \in Ranks :
       Iterate(r) /\ UNCHANGED notPmap

(***************************************************************************)
(* make_replicated, called on every rank of the world on an initialised    *)
(* array of NTiles tiles whose non-zero tiles are all set.                 *)
(***************************************************************************)
RValues == {1, 2}
AllRanks == 0 .. (MaxProcs - 1)
NoTiles == [t \in Tiles |-> 0]

\* The tiles rank r holds before the call, for tile values val.
TilesBefore(kind, r, procs, zero, val) ==
  [t \in Tiles |->
     IF t \notin zero /\ is_local(MakePmap(kind, r, procs, NTiles), t) = TRUE
       THEN val[t] ELSE 0]

\* The guard of make_replicated with the test of the world size dropped
\* and the result negated: the call never replicates.
NeedsReplication_never(p, procs) == FALSE

\* The guard of make_replicated taken as always true: every call builds a
\* new array.
NeedsReplication_always(p, procs) == TRUE

\* (! pimpl_->pmap()->is_replicated()) && (world().size() > 1).
NeedsReplication(p, procs) == ~is_replicated(p) /\ procs > 1

ReplInit ==
  /\ nprocs \in 1 .. MaxProcs
  /\ rKind0 \in PmapKinds
  /\ rZero \in SUBSET Tiles
  /\ rPmap = [r \in AllRanks |->
               IF r < nprocs THEN MakePmap(rKind0, r, nprocs, NTiles)
               ELSE NoPmap]
  /\ \E val \in [Tiles -> RValues] :
       rOld = [r \in AllRanks |->
                 IF r < nprocs
                   THEN TilesBefore(rKind0, r, nprocs, rZero, val)
                   ELSE NoTiles]
  /\ rNew = [r \in AllRanks |-> NoTiles]
  /\ rUse = [r \in AllRanks |-> "old"]
  /\ rTodo = [r \in AllRanks |-> {}]
  /\ rMsgs = {}
  /\ rPc = [r \in AllRanks |-> "start"]
  /\ Unused(initialized) /\ Unused(refs) /\ Unused(path)
  /\ Unused(registered) /\ Unused(cbRan) /\ Unused(del)
  /\ Unused(cleanup_counter_) /\ Unused(decs) /\ Unused(escaped)
  /\ Unused(throws) /\ Unused(ndebug) /\ Unused(pimpl_) /\ Unused(ext)
  /\ Unused(call) /\ Unused(fZero) /\ Unused(fLocal) /\ Unused(fTile)
  /\ Unused(fVal) /\ Unused(fTasks) /\ Unused(fLoop) /\ Unused(fCalls)
  /\ Unused(fRec) /\ Unused(pKind) /\ Unused(pSize) /\ Unused(pObj)
  /\ Unused(pCall) /\ Unused(pPrev) /\ Unused(policy) /\ Unused(cRank)
  /\ Unused(cCall) /\ Unused(sLz) /\ Unused(sRz) /\ Unused(sCz)
  /\ Unused(sPerm) /\ Unused(sLocal) /\ Unused(sArr) /\ Unused(sDone)
  /\ Unused(sAcc) /\ Unused(sOut) /\ Unused(sPc) /\ Unused(sGot)
  /\ Unused(nL) /\ Unused(nR) /\ Unused(nTau) /\ Unused(nCol)
  /\ Unused(nRes) /\ Unused(fSet) /\ Unused(fCallbacks)
  /\ Unused(fNotified) /\ Unused(fBase) /\ Unused(fCounter)
  /\ Unused(fIncs) /\ Unused(fTask) /\ Unused(fProbed) /\ Unused(fPc)
  /\ Unused(fChecks) /\ Unused(oLow) /\ Unused(oHigh)
  /\ Unused(m_linear_step) /\ Unused(oCall) /\ Unused(oNdebug)
  /\ Unused(m_pred) /\ Unused(itPc) /\ Unused(m_current) /\ Unused(m_value)
  /\ Unused(itSteps) /\ Unused(itOut) /\ Unused(permP) /\ Unused(permQ)
  /\ Unused(permS) /\ Unused(permCall) /\ Unused(tOp) /\ Unused(tNested)
  /\ Unused(tContig) /\ Unused(tBlocks) /\ Unused(tStride) /\ Unused(tData)
  /\ Unused(tCall) /\ Unused(mScal) /\ Unused(mFactor) /\ Unused(mLC)
  /\ Unused(mRC) /\ Unused(mLSame) /\ Unused(mRSame) /\ Unused(mLTrait)
  /\ Unused(mRTrait) /\ Unused(mConst) /\ Unused(mLeft) /\ Unused(mRight)
  /\ Unused(mCall) /\ Unused(lNdebug) /\ Unused(vars_) /\ Unused(lCall)
  /\ Unused(dPimpl) /\ Unused(dInit) /\ Unused(dOut) /\ Unused(dCounter)
  /\ Unused(dCall) /\ Unused(hAlive) /\ Unused(hPimpl) /\ Unused(hUse)
  /\ Unused(hDeleter) /\ Unused(hTiles) /\ Unused(hTask) /\ Unused(hLast)
  /\ Unused(gSet) /\ Unused(gCallbacks) /\ Unused(gPc) /\ Unused(gCall)
  /\ Unused(gRuns) /\ Unused(gResched) /\ Unused(gWhile)

\* make_replicated() on rank r, a first time or again after the fence that
\* followed the call before: under its guard a ReplicatedPmap and the
\* result array are built, a Replicator is created for the local tiles of
\* *this and the handle is assigned the result; otherwise nothing is done.
make_replicated(r) ==
  /\ rPc[r] \in {"start", "fenced"}
  /\ rPc' = [rPc EXCEPT ![r] = IF rPc[r] = "start" THEN "called"
                                ELSE "recalled"]
  /\ IF NeedsReplication(rPmap[r], nprocs)
       THEN /\ rPmap' = [rPmap EXCEPT ![r] = ReplicatedPmap(r, nprocs, NTiles)]
            /\ rTodo' = [rTodo EXCEPT ![r] = {t \in Tiles : rOld[r][t] # 0}]
            /\ rUse' = [rUse EXCEPT ![r] = "new"]
       ELSE UNCHANGED <<rPmap, rTodo, rUse>>
  /\ UNCHANGED <<rKind0, rZero, rOld, rNew, rMsgs>>

\* The replicator of rank r broadcasts one of its local non-zero tiles: it
\* installs the tile in its own copy of the result and sends it to every
\* other rank.
ReplicatorBroadcast(r, t) ==
  /\ t \in rTodo[r]
  /\ rTodo' = [rTodo EXCEPT ![r] = @ \ {t}]
  /\ rNew' = [rNew EXCEPT ![r][t] = rOld[r][t]]
  /\ rMsgs' = rMsgs \cup
       {[to |-> q, tile |-> t, value |-> rOld[r][t]] : q \in Ranks \ {r}}
  /\ UNCHANGED <<rKind0, rZero, rPmap, rOld, rUse, rPc>>

\* A broadcast tile arrives and is installed in the receiver's copy of the
\* result, once the receiver has constructed it.
ReplicatorDeliver(m) ==
  /\ m \in rMsgs
  /\ rPc[m.to] # "start"
  /\ rMsgs' = rMsgs \ {m}
  /\ rNew' = [rNew EXCEPT ![m.to][m.tile] = m.value]
  /\ UNCHANGED <<rKind0, rZero, rPmap, rOld, rUse, rTodo, rPc>>

\* world.gop.fence() returns on rank r: every rank has entered it and no
\* task or message is outstanding.
Fence(r) ==
  /\ rPc[r] \in {"called", "recalled"}
  /\ \A q \in Ranks : rPc[q] # "start" /\ rTodo[q] = {}
  /\ rMsgs = {}
  /\ rPc' = [rPc EXCEPT ![r] = "fenced"]
  /\ UNCHANGED <<rKind0, rZero, rPmap, rOld, rNew, rUse, rTodo, rMsgs>>

\* find(i).get() on rank r: the local tile of the array the handle names,
\* or the owner's tile when i is not local.  0: the future is never set.
find_get(r, i) ==
  IF is_local(rPmap[r], i) = TRUE
    THEN IF rUse[r] = "new" THEN rNew[r][i] ELSE rOld[r][i]
    ELSE rOld[owner(rPmap[r], i)][i]

ReplNext ==
  \/ \E r \in Ranks :
       make_replicated(r)
         /\ UNCHANGED notRepl
  \/ \E r \in Ranks, t \in Tiles :
       ReplicatorBroadcast(r, t)
         /\ UNCHANGED notRepl
  \/ \E m \in rMsgs :
       ReplicatorDeliver(m)
         /\ UNCHANGED notRepl
  \/ \E r \in Ranks :
       Fence(r) /\ UNCHANGED notRepl

(***************************************************************************)
(* Construction: DistArray(world, trange[, shape][, pmap]) -> init(...).   *)
(* A shape is a record: kind "dense" (never empty, valid for every range)  *)
(* or kind "sparse" with its emptiness and the range of its norm tensor.   *)
(***************************************************************************)
DenseShape == [kind |-> "dense", empty |-> FALSE, range |-> <<>>]
EmptyShape == [kind |-> "sparse", empty |-> TRUE, range |-> <<>>]
SparseShapes ==
  {EmptyShape} \cup
  {[kind |-> "sparse", empty |-> FALSE, range |-> e] : e \in TileRanges}

\* Shapes the sparse constructor can be handed under a policy.
ShapeArgs(pol) == IF pol = "dense" THEN {DenseShape} ELSE SparseShapes

\* shape_type(): the shape the dense constructor passes to init.
shape_type(pol) == IF pol = "dense" THEN DenseShape ELSE EmptyShape

\* shape.validate(range): the range of the shape equals the tiles range.
validate(shape, range) == shape.kind = "dense" \/ shape.range = range

\* Process maps a caller can pass: none, or a map of any size, rank and
\* process count.
PmapArgs ==
  {NoPmap} \cup
  {Pmap("blocked", r, p, n) :
     r \in 0 .. (MaxProcs - 1), p \in 1 .. MaxProcs, n \in 0 .. (MaxExt * MaxExt)}

\* Policy::default_pmap(world, volume).
default_pmap(rank, procs, volume) == BlockedPmap(rank, procs, volume)

NoImpl == [made |-> FALSE, trange |-> <<>>, shape |-> EmptyShape,
           pmap |-> NoPmap]
NoCtor == [op |-> "none", trange |-> <<>>, shape |-> EmptyShape,
           pmap |-> NoPmap, error |-> "none", impl |-> NoImpl]

\* init without the test of pmap->rank().
init_no_rank_test(rank, procs, trange, shape, pmap) ==
  LET given == pmap # NoPmap
      pm == IF given THEN pmap ELSE default_pmap(rank, procs, Volume(trange))
      err == IF given /\ pm.size_ # Volume(trange) THEN "pmap_size"
             ELSE IF given /\ pm.procs_ # procs THEN "pmap_procs"
             ELSE IF shape.empty THEN "shape_empty"
             ELSE IF ~validate(shape, trange) THEN "shape_range"
             ELSE "none"
  IN [error |-> err,
      impl |-> IF err = "none"
                 THEN [made |-> TRUE, trange |-> trange, shape |-> shape,
                       pmap |-> pm]
                 ELSE NoImpl]

\* init(world, trange, shape, pmap): the default map for a null pmap, else
\* the three tests of the map; the two tests of the shape; new impl_type.
init(rank, procs, trange, shape, pmap) ==
  LET given == pmap # NoPmap
      pm == IF given THEN pmap ELSE default_pmap(rank, procs, Volume(trange))
      err == IF given /\ pm.size_ # Volume(trange) THEN "pmap_size"
             ELSE IF given /\ pm.rank_ # rank THEN "pmap_rank"
             ELSE IF given /\ pm.procs_ # procs THEN "pmap_procs"
             ELSE IF shape.empty THEN "shape_empty"
             ELSE IF ~validate(shape, trange) THEN "shape_range"
             ELSE "none"
  IN [error |-> err,
      impl |-> IF err = "none"
                 THEN [made |-> TRUE, trange |-> trange, shape |-> shape,
                       pmap |-> pm]
                 ELSE NoImpl]

CtorInit ==
  /\ nprocs \in 1 .. MaxProcs
  /\ cRank \in 0 .. (MaxProcs - 1)
  /\ cRank < nprocs
  /\ policy \in {"dense", "sparse"}
  /\ cCall = NoCtor
  /\ Unused(initialized) /\ Unused(refs) /\ Unused(path)
  /\ Unused(registered) /\ Unused(cbRan) /\ Unused(del)
  /\ Unused(cleanup_counter_) /\ Unused(decs) /\ Unused(escaped)
  /\ Unused(throws) /\ Unused(ndebug) /\ Unused(pimpl_) /\ Unused(ext)
  /\ Unused(call) /\ Unused(fZero) /\ Unused(fLocal) /\ Unused(fTile)
  /\ Unused(fVal) /\ Unused(fTasks) /\ Unused(fLoop) /\ Unused(fCalls)
  /\ Unused(fRec) /\ Unused(pKind) /\ Unused(pSize) /\ Unused(pObj)
  /\ Unused(pCall) /\ Unused(pPrev) /\ Unused(rKind0) /\ Unused(rZero)
  /\ Unused(rPmap) /\ Unused(rOld) /\ Unused(rNew) /\ Unused(rUse)
  /\ Unused(rTodo) /\ Unused(rMsgs) /\ Unused(rPc) /\ Unused(sLz)
  /\ Unused(sRz) /\ Unused(sCz) /\ Unused(sPerm) /\ Unused(sLocal)
  /\ Unused(sArr) /\ Unused(sDone) /\ Unused(sAcc) /\ Unused(sOut)
  /\ Unused(sPc) /\ Unused(sGot) /\ Unused(nL) /\ Unused(nR)
  /\ Unused(nTau) /\ Unused(nCol) /\ Unused(nRes) /\ Unused(fSet)
  /\ Unused(fCallbacks) /\ Unused(fNotified) /\ Unused(fBase)
  /\ Unused(fCounter) /\ Unused(fIncs) /\ Unused(fTask) /\ Unused(fProbed)
  /\ Unused(fPc) /\ Unused(fChecks) /\ Unused(oLow) /\ Unused(oHigh)
  /\ Unused(m_linear_step) /\ Unused(oCall) /\ Unused(oNdebug)
  /\ Unused(m_pred) /\ Unused(itPc) /\ Unused(m_current) /\ Unused(m_value)
  /\ Unused(itSteps) /\ Unused(itOut) /\ Unused(permP) /\ Unused(permQ)
  /\ Unused(permS) /\ Unused(permCall) /\ Unused(tOp) /\ Unused(tNested)
  /\ Unused(tContig) /\ Unused(tBlocks) /\ Unused(tStride) /\ Unused(tData)
  /\ Unused(tCall) /\ Unused(mScal) /\ Unused(mFactor) /\ Unused(mLC)
  /\ Unused(mRC) /\ Unused(mLSame) /\ Unused(mRSame) /\ Unused(mLTrait)
  /\ Unused(mRTrait) /\ Unused(mConst) /\ Unused(mLeft) /\ Unused(mRight)
  /\ Unused(mCall) /\ Unused(lNdebug) /\ Unused(vars_) /\ Unused(lCall)
  /\ Unused(dPimpl) /\ Unused(dInit) /\ Unused(dOut) /\ Unused(dCounter)
  /\ Unused(dCall) /\ Unused(hAlive) /\ Unused(hPimpl) /\ Unused(hUse)
  /\ Unused(hDeleter) /\ Unused(hTiles) /\ Unused(hTask) /\ Unused(hLast)
  /\ Unused(gSet) /\ Unused(gCallbacks) /\ Unused(gPc) /\ Unused(gCall)
  /\ Unused(gRuns) /\ Unused(gResched) /\ Unused(gWhile)

Construct(op, trange, shape, pmap) ==
  /\ cCall.op = "none"
  /\ LET res == init(cRank, nprocs, trange, shape, pmap) IN
       cCall' = [op |-> op, trange |-> trange, shape |-> shape, pmap |-> pmap,
                 error |-> res.error, impl |-> res.impl]
  /\ UNCHANGED <<policy, cRank>>

\* DistArray(world, trange, pmap): pimpl_(init(world, trange, shape_type(),
\* pmap)).
DenseCtor(trange, pmap) ==
  Construct("dense_ctor", trange, shape_type(policy), pmap)

\* DistArray(world, trange, shape, pmap): pimpl_(init(world, trange, shape,
\* pmap)).
SparseCtor(trange, shape, pmap) ==
  Construct("sparse_ctor", trange, shape, pmap)

\* The constructed object, or the exception, goes out of scope.
CtorDone ==
  /\ cCall.op # "none"
  /\ cCall' = NoCtor
  /\ UNCHANGED <<policy, cRank>>

CtorNext ==
  \/ /\ cCall.op = "none"
     /\ \E trange \in TileRanges, pmap \in PmapArgs : DenseCtor(trange, pmap)
     /\ UNCHANGED notCtor
  \/ /\ cCall.op = "none"
     /\ \E trange \in TileRanges, shape \in ShapeArgs(policy),
           pmap \in PmapArgs : SparseCtor(trange, shape, pmap)
     /\ UNCHANGED notCtor
  \/ CtorDone /\ UNCHANGED notCtor

(***************************************************************************)
(* The contraction evaluator as one rank sees it: the left argument is a   *)
(* row of SK tiles L[0,k], the right argument SK x SN tiles R[k,j], the    *)
(* result a row of SN tiles (a column under the permutation (1,0)).  Every *)
(* tile holds one element.                                                 *)
(***************************************************************************)
Stripes == 0 .. (SK - 1)
Cols == 0 .. (SN - 1)

\* The element of a non-zero input tile (rand_fill_array sets one for every
\* non-zero tile; here a fixed positive value per tile).
LVal(k) == k + 1
RVal(k, j) == 2 * k + j + 2

\* copy_to_matrix: a zero tile leaves its block of the matrix 0.
LMat(lz, k) == IF k \in lz THEN 0 ELSE LVal(k)
RMat(rz, k, j) == IF <<k, j>> \in rz THEN 0 ELSE RVal(k, j)

\* reference = l * r: element j of the product, summed over stripes below n.
RECURSIVE Reference(_, _, _, _)
Reference(lz, rz, j, n) ==
  IF n = 0 THEN 0
  ELSE Reference(lz, rz, j, n - 1) + LMat(lz, n - 1) * RMat(rz, n - 1, j)

\* contract.trange().make_tile_range(i): the coordinates of tile i of the
\* result, a row, or a column when the result is transposed.
make_tile_range(perm, i) == IF perm THEN <<i, 0>> ELSE <<0, i>>

\* The coordinates the evaluator gives output tile j: the op permutes the
\* result tile when a permutation is given.
ResultRange(perm, j) == IF perm THEN <<j, 0>> ELSE <<0, j>>

NoOut == [sets |-> 0, empty |-> TRUE, range |-> <<>>, value |-> 0]
NoGot == [index |-> -1, tile |-> NoOut]

\* Output tiles with no pair of non-zero operands.
StructuralZeros(lz, rz) ==
  {j \in Cols : \A k \in Stripes : k \in lz \/ <<k, j>> \in rz}

\* Stripe k contributes to output tile j: both operands are non-zero.
Contributes(j, k) == k \notin sLz /\ <<k, j>> \notin sRz

\* A GEMM term without the right operand.
GemmTerm_left_only(k, j) == Alpha * LVal(k)

\* Alpha * L[0,k] * R[k,j].
GemmTerm(k, j) == Alpha * LVal(k) * RVal(k, j)

\* The readiness test with one processed stripe taken as enough.
LastStripeDone_any(done, j) == \E k \in Stripes : <<j, k>> \in done

\* The last stripe involving output tile j has completed.
LastStripeDone(done, j) == \A k \in Stripes : <<j, k>> \in done

\* The tiles this rank produces.
LocalNonZero == sLocal \ sCz

\* The test of wait() taken as always true.
AllLocalSet_none == TRUE

\* wait(): every tile this rank produces has had its future set.
AllLocalSet == \A j \in LocalNonZero : sOut[j].sets > 0

SummaInit ==
  /\ sLz \in SUBSET Stripes
  /\ sRz \in SUBSET (Stripes \X Cols)
  /\ sCz \in SUBSET StructuralZeros(sLz, sRz)
  /\ sPerm \in BOOLEAN
  /\ sLocal \in SUBSET Cols
  /\ sArr = {}
  /\ sDone = {}
  /\ sAcc = [j \in Cols |-> 0]
  /\ sOut = [j \in Cols |-> NoOut]
  /\ sPc = "made"
  /\ sGot = NoGot
  /\ Unused(nprocs) /\ Unused(initialized) /\ Unused(refs) /\ Unused(path)
  /\ Unused(registered) /\ Unused(cbRan) /\ Unused(del)
  /\ Unused(cleanup_counter_) /\ Unused(decs) /\ Unused(escaped)
  /\ Unused(throws) /\ Unused(ndebug) /\ Unused(pimpl_) /\ Unused(ext)
  /\ Unused(call) /\ Unused(fZero) /\ Unused(fLocal) /\ Unused(fTile)
  /\ Unused(fVal) /\ Unused(fTasks) /\ Unused(fLoop) /\ Unused(fCalls)
  /\ Unused(fRec) /\ Unused(pKind) /\ Unused(pSize) /\ Unused(pObj)
  /\ Unused(pCall) /\ Unused(pPrev) /\ Unused(rKind0) /\ Unused(rZero)
  /\ Unused(rPmap) /\ Unused(rOld) /\ Unused(rNew) /\ Unused(rUse)
  /\ Unused(rTodo) /\ Unused(rMsgs) /\ Unused(rPc) /\ Unused(policy)
  /\ Unused(cRank) /\ Unused(cCall) /\ Unused(nL) /\ Unused(nR)
  /\ Unused(nTau) /\ Unused(nCol) /\ Unused(nRes) /\ Unused(fSet)
  /\ Unused(fCallbacks) /\ Unused(fNotified) /\ Unused(fBase)
  /\ Unused(fCounter) /\ Unused(fIncs) /\ Unused(fTask) /\ Unused(fProbed)
  /\ Unused(fPc) /\ Unused(fChecks) /\ Unused(oLow) /\ Unused(oHigh)
  /\ Unused(m_linear_step) /\ Unused(oCall) /\ Unused(oNdebug)
  /\ Unused(m_pred) /\ Unused(itPc) /\ Unused(m_current) /\ Unused(m_value)
  /\ Unused(itSteps) /\ Unused(itOut) /\ Unused(permP) /\ Unused(permQ)
  /\ Unused(permS) /\ Unused(permCall) /\ Unused(tOp) /\ Unused(tNested)
  /\ Unused(tContig) /\ Unused(tBlocks) /\ Unused(tStride) /\ Unused(tData)
  /\ Unused(tCall) /\ Unused(mScal) /\ Unused(mFactor) /\ Unused(mLC)
  /\ Unused(mRC) /\ Unused(mLSame) /\ Unused(mRSame) /\ Unused(mLTrait)
  /\ Unused(mRTrait) /\ Unused(mConst) /\ Unused(mLeft) /\ Unused(mRight)
  /\ Unused(mCall) /\ Unused(lNdebug) /\ Unused(vars_) /\ Unused(lCall)
  /\ Unused(dPimpl) /\ Unused(dInit) /\ Unused(dOut) /\ Unused(dCounter)
  /\ Unused(dCall) /\ Unused(hAlive) /\ Unused(hPimpl) /\ Unused(hUse)
  /\ Unused(hDeleter) /\ Unused(hTiles) /\ Unused(hTask) /\ Unused(hLast)
  /\ Unused(gSet) /\ Unused(gCallbacks) /\ Unused(gPc) /\ Unused(gCall)
  /\ Unused(gRuns) /\ Unused(gResched) /\ Unused(gWhile)

\* contract.eval().
Eval ==
  /\ sPc = "made"
  /\ sPc' = "evaluating"
  /\ UNCHANGED <<sLz, sRz, sCz, sPerm, sLocal, sArr, sDone, sAcc, sOut, sGot>>

\* The broadcast of stripe k of one argument completes on this rank; zero
\* tiles are not sent.
StripeArrive(side, k) ==
  /\ sPc # "made"
  /\ <<side, k>> \notin sArr
  /\ IF side = "left" THEN k \notin sLz
     ELSE \E j \in Cols : <<k, j>> \notin sRz
  /\ sArr' = sArr \cup {<<side, k>>}
  /\ UNCHANGED <<sLz, sRz, sCz, sPerm, sLocal, sDone, sAcc, sOut, sPc, sGot>>

\* Local GEMM of stripe k into output tile j: accumulate Alpha * L * R, or
\* skip the pair when either operand is zero in its shape; when this was
\* the last stripe involving tile j, set its output future.
Gemm(j, k) ==
  /\ sPc # "made"
  /\ j \in LocalNonZero
  /\ <<j, k>> \notin sDone
  /\ Contributes(j, k) =>
       (<<"left", k>> \in sArr /\ <<"right", k>> \in sArr)
  /\ LET acc == IF Contributes(j, k) THEN sAcc[j] + GemmTerm(k, j)
                ELSE sAcc[j]
         done == sDone \cup {<<j, k>>}
     IN /\ sAcc' = [sAcc EXCEPT ![j] = acc]
        /\ sDone' = done
        /\ IF LastStripeDone(done, j)
             THEN sOut' = [sOut EXCEPT ![j] =
                    [sets |-> @.sets + 1,
                     empty |-> (\A kk \in Stripes : ~Contributes(j, kk)),
                     range |-> ResultRange(sPerm, j),
                     value |-> acc]]
             ELSE UNCHANGED sOut
  /\ UNCHANGED <<sLz, sRz, sCz, sPerm, sLocal, sArr, sPc, sGot>>

\* contract.wait() returns.
WaitReturn ==
  /\ sPc = "evaluating"
  /\ AllLocalSet
  /\ sPc' = "waited"
  /\ UNCHANGED <<sLz, sRz, sCz, sPerm, sLocal, sArr, sDone, sAcc, sOut, sGot>>

\* The loop of the test over pmap()->begin() .. end(): tile = move(*it);
\* eval_tile = tile.get(), for a tile that is not zero.  get() blocks until
\* the future is set.
Move(j) ==
  /\ sPc = "waited"
  /\ j \in LocalNonZero
  /\ sOut[j].sets > 0
  /\ sGot' = [index |-> j, tile |-> sOut[j]]
  /\ UNCHANGED <<sLz, sRz, sCz, sPerm, sLocal, sArr, sDone, sAcc, sOut, sPc>>

SummaNext ==
  \/ Eval /\ UNCHANGED notSumma
  \/ \E side \in {"left", "right"}, k \in Stripes :
       StripeArrive(side, k) /\ UNCHANGED notSumma
  \/ \E j \in Cols, k \in Stripes : Gemm(j, k) /\ UNCHANGED notSumma
  \/ WaitReturn /\ UNCHANGED notSumma
  \/ \E j \in Cols : Move(j) /\ UNCHANGED notSumma

(***************************************************************************)
(* The sparse contraction of the test sparse_eval, for one output tile j:  *)
(* shapes with per-tile norms and a threshold, the result shape computed   *)
(* by the shape gemm, the tile produced, and the reference product.        *)
(* Norms and the threshold are multiples of 1/NormDen.                     *)
(***************************************************************************)
Norms == 0 .. MaxNorm

\* SparseShape(shape_data, threshold): is_zero(i) <=> norm[i] < threshold.
is_zero(norm, tau) == norm < tau

\* The zero tiles of the two arguments among those tile j depends on.
LeftZeros == {k \in Stripes : is_zero(nL[k], nTau)}
RightZeros == {<<k, nCol>> : k \in {kk \in Stripes : is_zero(nR[kk], nTau)}}

\* The shape gemm with the sum cut after the first stripe.
ShapeGemm_first_stripe(l, r, n) == IF n = 0 THEN 0 ELSE l[0] * r[0]

\* left.shape().gemm(right.shape(), 1, helper): the norm bound of the output
\* tile, the products of the tile norms summed over the stripes below n, in
\* 1/(NormDen * NormDen).
RECURSIVE ShapeGemm(_, _, _)
ShapeGemm(l, r, n) ==
  IF n = 0 THEN 0 ELSE ShapeGemm(l, r, n - 1) + l[n - 1] * r[n - 1]

\* The tile the evaluator produces for column j from the stripes below n:
\* the terms of the pairs with both operands non-zero.
RECURSIVE Contracted(_, _, _, _)
Contracted(lz, rz, j, n) ==
  IF n = 0 THEN 0
  ELSE Contracted(lz, rz, j, n - 1) +
       (IF (n - 1) \in lz \/ <<n - 1, j>> \in rz THEN 0
        ELSE GemmTerm(n - 1, j))

NoRes == [phase |-> "none", zero |-> FALSE, value |-> 0]

SparseInit ==
  /\ nL \in [Stripes -> Norms]
  /\ nR \in [Stripes -> Norms]
  /\ nTau \in Norms
  /\ nCol \in Cols
  /\ nRes = NoRes
  /\ Unused(nprocs) /\ Unused(initialized) /\ Unused(refs) /\ Unused(path)
  /\ Unused(registered) /\ Unused(cbRan) /\ Unused(del)
  /\ Unused(cleanup_counter_) /\ Unused(decs) /\ Unused(escaped)
  /\ Unused(throws) /\ Unused(ndebug) /\ Unused(pimpl_) /\ Unused(ext)
  /\ Unused(call) /\ Unused(fZero) /\ Unused(fLocal) /\ Unused(fTile)
  /\ Unused(fVal) /\ Unused(fTasks) /\ Unused(fLoop) /\ Unused(fCalls)
  /\ Unused(fRec) /\ Unused(pKind) /\ Unused(pSize) /\ Unused(pObj)
  /\ Unused(pCall) /\ Unused(pPrev) /\ Unused(rKind0) /\ Unused(rZero)
  /\ Unused(rPmap) /\ Unused(rOld) /\ Unused(rNew) /\ Unused(rUse)
  /\ Unused(rTodo) /\ Unused(rMsgs) /\ Unused(rPc) /\ Unused(policy)
  /\ Unused(cRank) /\ Unused(cCall) /\ Unused(sLz) /\ Unused(sRz)
  /\ Unused(sCz) /\ Unused(sPerm) /\ Unused(sLocal) /\ Unused(sArr)
  /\ Unused(sDone) /\ Unused(sAcc) /\ Unused(sOut) /\ Unused(sPc)
  /\ Unused(sGot) /\ Unused(fSet) /\ Unused(fCallbacks)
  /\ Unused(fNotified) /\ Unused(fBase) /\ Unused(fCounter)
  /\ Unused(fIncs) /\ Unused(fTask) /\ Unused(fProbed) /\ Unused(fPc)
  /\ Unused(fChecks) /\ Unused(oLow) /\ Unused(oHigh)
  /\ Unused(m_linear_step) /\ Unused(oCall) /\ Unused(oNdebug)
  /\ Unused(m_pred) /\ Unused(itPc) /\ Unused(m_current) /\ Unused(m_value)
  /\ Unused(itSteps) /\ Unused(itOut) /\ Unused(permP) /\ Unused(permQ)
  /\ Unused(permS) /\ Unused(permCall) /\ Unused(tOp) /\ Unused(tNested)
  /\ Unused(tContig) /\ Unused(tBlocks) /\ Unused(tStride) /\ Unused(tData)
  /\ Unused(tCall) /\ Unused(mScal) /\ Unused(mFactor) /\ Unused(mLC)
  /\ Unused(mRC) /\ Unused(mLSame) /\ Unused(mRSame) /\ Unused(mLTrait)
  /\ Unused(mRTrait) /\ Unused(mConst) /\ Unused(mLeft) /\ Unused(mRight)
  /\ Unused(mCall) /\ Unused(lNdebug) /\ Unused(vars_) /\ Unused(lCall)
  /\ Unused(dPimpl) /\ Unused(dInit) /\ Unused(dOut) /\ Unused(dCounter)
  /\ Unused(dCall) /\ Unused(hAlive) /\ Unused(hPimpl) /\ Unused(hUse)
  /\ Unused(hDeleter) /\ Unused(hTiles) /\ Unused(hTask) /\ Unused(hLast)
  /\ Unused(gSet) /\ Unused(gCallbacks) /\ Unused(gPc) /\ Unused(gCall)
  /\ Unused(gRuns) /\ Unused(gResched) /\ Unused(gWhile)

\* result_shape = left_arg.shape().gemm(right_arg.shape(), 1, gemm_helper):
\* the verdict of the result shape on tile j.
MakeResultShape ==
  /\ nRes.phase = "none"
  /\ nRes' = [phase |-> "shaped",
              zero |-> is_zero(ShapeGemm(nL, nR, SK), nTau * NormDen),
              value |-> 0]
  /\ UNCHANGED <<nL, nR, nTau, nCol>>

\* contract.eval(); contract.wait(); move(j).get() for a tile that is not
\* declared zero.
EvalSparse ==
  /\ nRes.phase = "shaped"
  /\ nRes' = [nRes EXCEPT !.phase = "evaluated",
                         !.value = IF nRes.zero THEN 0
                                   ELSE Contracted(LeftZeros, RightZeros,
                                                   nCol, SK)]
  /\ UNCHANGED <<nL, nR, nTau, nCol>>

SparseNext ==
  \/ MakeResultShape /\ UNCHANGED notSparse
  \/ EvalSparse /\ UNCHANGED notSparse

(***************************************************************************)
(* FutureTensor::check_dependency(task), called by one thread while        *)
(* another sets the future.  The future registers a callback when it is    *)
(* unset and notifies it at once when it is set; setting the future        *)
(* notifies every registered callback; a notification decrements the       *)
(* task's dependency counter.                                              *)
(***************************************************************************)
NoTask == "null"
TaskArgs == {NoTask, "task"}

\* The condition with the probe of the future left out.
NeedsDependency_unprobed(task, probed) == task # NoTask

\* if(task && (! tensor_.probe()))
NeedsDependency(task, probed) == task # NoTask /\ ~probed

FutureInit ==
  /\ fSet = FALSE
  /\ fCallbacks = 0
  /\ fNotified = 0
  /\ fBase \in 0 .. MaxDeps
  /\ fCounter = fBase
  /\ fIncs = 0
  /\ fTask = NoTask
  /\ fProbed = FALSE
  /\ fPc = "idle"
  /\ fChecks = 0
  /\ Unused(nprocs) /\ Unused(initialized) /\ Unused(refs) /\ Unused(path)
  /\ Unused(registered) /\ Unused(cbRan) /\ Unused(del)
  /\ Unused(cleanup_counter_) /\ Unused(decs) /\ Unused(escaped)
  /\ Unused(throws) /\ Unused(ndebug) /\ Unused(pimpl_) /\ Unused(ext)
  /\ Unused(call) /\ Unused(fZero) /\ Unused(fLocal) /\ Unused(fTile)
  /\ Unused(fVal) /\ Unused(fTasks) /\ Unused(fLoop) /\ Unused(fCalls)
  /\ Unused(fRec) /\ Unused(pKind) /\ Unused(pSize) /\ Unused(pObj)
  /\ Unused(pCall) /\ Unused(pPrev) /\ Unused(rKind0) /\ Unused(rZero)
  /\ Unused(rPmap) /\ Unused(rOld) /\ Unused(rNew) /\ Unused(rUse)
  /\ Unused(rTodo) /\ Unused(rMsgs) /\ Unused(rPc) /\ Unused(policy)
  /\ Unused(cRank) /\ Unused(cCall) /\ Unused(sLz) /\ Unused(sRz)
  /\ Unused(sCz) /\ Unused(sPerm) /\ Unused(sLocal) /\ Unused(sArr)
  /\ Unused(sDone) /\ Unused(sAcc) /\ Unused(sOut) /\ Unused(sPc)
  /\ Unused(sGot) /\ Unused(nL) /\ Unused(nR) /\ Unused(nTau)
  /\ Unused(nCol) /\ Unused(nRes) /\ Unused(oLow) /\ Unused(oHigh)
  /\ Unused(m_linear_step) /\ Unused(oCall) /\ Unused(oNdebug)
  /\ Unused(m_pred) /\ Unused(itPc) /\ Unused(m_current) /\ Unused(m_value)
  /\ Unused(itSteps) /\ Unused(itOut) /\ Unused(permP) /\ Unused(permQ)
  /\ Unused(permS) /\ Unused(permCall) /\ Unused(tOp) /\ Unused(tNested)
  /\ Unused(tContig) /\ Unused(tBlocks) /\ Unused(tStride) /\ Unused(tData)
  /\ Unused(tCall) /\ Unused(mScal) /\ Unused(mFactor) /\ Unused(mLC)
  /\ Unused(mRC) /\ Unused(mLSame) /\ Unused(mRSame) /\ Unused(mLTrait)
  /\ Unused(mRTrait) /\ Unused(mConst) /\ Unused(mLeft) /\ Unused(mRight)
  /\ Unused(mCall) /\ Unused(lNdebug) /\ Unused(vars_) /\ Unused(lCall)
  /\ Unused(dPimpl) /\ Unused(dInit) /\ Unused(dOut) /\ Unused(dCounter)
  /\ Unused(dCall) /\ Unused(hAlive) /\ Unused(hPimpl) /\ Unused(hUse)
  /\ Unused(hDeleter) /\ Unused(hTiles) /\ Unused(hTask) /\ Unused(hLast)
  /\ Unused(gSet) /\ Unused(gCallbacks) /\ Unused(gPc) /\ Unused(gCall)
  /\ Unused(gRuns) /\ Unused(gResched) /\ Unused(gWhile)

\* Entry of check_dependency: the test of the task pointer and of the probe.
CheckDependency(task) ==
  /\ fPc = "idle"
  /\ fChecks < MaxChecks
  /\ fChecks' = fChecks + 1
  /\ fTask' = task
  /\ fProbed' = fSet
  /\ fPc' = IF NeedsDependency(task, fSet) THEN "inc" ELSE "idle"
  /\ UNCHANGED <<fSet, fCallbacks, fNotified, fBase, fCounter, fIncs>>

\* task->inc()
TaskInc ==
  /\ fPc = "inc"
  /\ fCounter' = fCounter + 1
  /\ fIncs' = fIncs + 1
  /\ fPc' = "register"
  /\ UNCHANGED <<fSet, fCallbacks, fNotified, fBase, fTask, fProbed, fChecks>>

\* tensor_->register_callback(task): notified at once if the future is set.
RegisterCallback ==
  /\ fPc = "register"
  /\ IF fSet
       THEN /\ fCounter' = fCounter - 1
            /\ fNotified' = fNotified + 1
            /\ UNCHANGED fCallbacks
       ELSE /\ fCallbacks' = fCallbacks + 1
            /\ UNCHANGED <<fCounter, fNotified>>
  /\ fPc' = "idle"
  /\ UNCHANGED <<fSet, fBase, fIncs, fTask, fProbed, fChecks>>

\* Future::set on another thread: every registered callback is notified.
FutureSet ==
  /\ ~fSet
  /\ fSet' = TRUE
  /\ fCounter' = fCounter - fCallbacks
  /\ fNotified' = fNotified + fCallbacks
  /\ fCallbacks' = 0
  /\ UNCHANGED <<fBase, fIncs, fTask, fProbed, fPc, fChecks>>

FutureNext ==
  \/ \E task \in TaskArgs : CheckDependency(task) /\ UNCHANGED notFuture
  \/ TaskInc /\ UNCHANGED notFuture
  \/ RegisterCallback /\ UNCHANGED notFuture
  \/ FutureSet /\ UNCHANGED notFuture

(***************************************************************************)
(* Shape<DIM>: the linear steps of the orthotope [low, high), the ordinal  *)
(* of a coordinate and the coordinate of an ordinal.  Tuples are functions *)
(* over 0 .. DIM-1.                                                        *)
(***************************************************************************)
Axes == 0 .. DIM - 1
LowValues == {-1, 2}
CoordValues == -2 .. 2 + MaxExt

\* Orthotope::includes: low <= c < high in every dimension.
includes(low, high, c) == \A d \in Axes : low[d] <= c[d] /\ c[d] < high[d]

\* Orthotope::nelements over the dimensions d .. DIM-1.
RECURSIVE nelements(_, _, _)
nelements(low, high, d) ==
  IF d = DIM THEN 1 ELSE (high[d] - low[d]) * nelements(low, high, d + 1)

\* Linear steps that leave out the extent of the last dimension.
linear_step_unit(low, high, d) == 1

\* init_linear_step_: step[DIM-1] = 1, step[d-1] = (h[d] - l[d]) * step[d].
RECURSIVE linear_step(_, _, _)
linear_step(low, high, d) ==
  IF d = DIM - 1 THEN 1
  ELSE (high[d + 1] - low[d + 1]) * linear_step(low, high, d + 1)

init_linear_step_(low, high) == [d \in Axes |-> linear_step(low, high, d)]

\* VectorOps::dotProduct over the dimensions d .. DIM-1.
RECURSIVE dotProduct(_, _, _)
dotProduct(a, b, d) ==
  IF d = DIM THEN 0 ELSE a[d] * b[d] + dotProduct(a, b, d + 1)

\* Shape::ord: the assertion, and the value of the dot product.
ord(low, high, step, c) ==
  [failed |-> ~includes(low, high, c),
   value |-> dotProduct([d \in Axes |-> c[d] - low[d]], step, 0)]

\* The loop of Shape::coord from dimension d with linear_index li left:
\* [index, rest] with the element index relative to low; a dimension the
\* loop does not reach keeps the 0 of the default-constructed Tuple.
RECURSIVE coord_loop(_, _, _, _)
coord_loop(step, li, d, idx) ==
  IF li > 0 /\ d < DIM
    THEN LET q == li \div step[d]
         IN coord_loop(step, li - q * step[d], d + 1, [idx EXCEPT ![d] = q])
    ELSE [index |-> idx, rest |-> li]

\* Shape::coord: the two assertions, and the element index offset by low.
coord(low, high, step, k) ==
  IF k >= nelements(low, high, 0)
    THEN [failed |-> TRUE, value |-> low]
    ELSE LET r == coord_loop(step, k, 0, [d \in Axes |-> 0])
         IN [failed |-> r.rest # 0,
             value |-> [d \in Axes |-> r.index[d] + low[d]]]

NoShapeCall == [op |-> "none", arg |-> 0, out |-> 0, back |-> 0]

\* The predicates tried: every tuple, no tuple, the tuples whose coordinates
\* have an even sum.
PredKinds == {"all", "none", "even"}
pred(kind, c) ==
  \/ kind = "all"
  \/ kind = "even" /\ dotProduct(c, [d \in Axes |-> 1], 0) % 2 = 0

\* The members of the iterator and of the iteration.
iterVars == <<m_current, m_value, itSteps, itOut>>
NoTuple == [d \in Axes |-> 0]

\* m_value(coll.coord(cur)) in the constructor of ShapeIterator: cur is
\* converted to size_t, and a negative cur becomes a value above every
\* nelements(), so that the first assertion of coord does not hold.
ShapeIterator(low, high, step, cur) ==
  IF cur < 0 THEN [failed |-> TRUE, m_current |-> cur, m_value |-> NoTuple]
  ELSE LET r == coord(low, high, step, cur)
       IN [failed |-> r.failed, m_current |-> cur, m_value |-> r.value]

\* ShapeIterator::advance(1): the ordinal and the last coordinate go up by
\* one; past the end of the last dimension the tuple is recalculated, or
\* the ordinal set to -1 when no element is left.
advance(low, high, step, cur, value) ==
  LET c1 == cur + 1
      v1 == [value EXCEPT ![DIM - 1] = @ + 1]
  IN IF v1[DIM - 1] >= high[DIM - 1]
       THEN IF c1 < nelements(low, high, 0)
              THEN [m_current |-> c1, m_value |-> coord(low, high, step, c1).value]
              ELSE [m_current |-> -1, m_value |-> v1]
       ELSE [m_current |-> c1, m_value |-> v1]

\* Shape(ortho, pred): an orthotope with low <= high, and its linear steps.
ShapeInit ==
  /\ oLow \in [Axes -> LowValues]
  /\ oHigh \in [Axes -> CoordValues]
  /\ \A d \in Axes : oLow[d] <= oHigh[d] /\ oHigh[d] <= oLow[d] + MaxExt
  /\ m_linear_step = init_linear_step_(oLow, oHigh)
  /\ oCall = NoShapeCall
  /\ oNdebug \in BOOLEAN
  /\ m_pred \in PredKinds
  /\ itPc = "idle"
  /\ m_current = -1
  /\ m_value = NoTuple
  /\ itSteps = 0
  /\ itOut = <<>>
  /\ Unused(nprocs) /\ Unused(initialized) /\ Unused(refs) /\ Unused(path)
  /\ Unused(registered) /\ Unused(cbRan) /\ Unused(del)
  /\ Unused(cleanup_counter_) /\ Unused(decs) /\ Unused(escaped)
  /\ Unused(throws) /\ Unused(ndebug) /\ Unused(pimpl_) /\ Unused(ext)
  /\ Unused(call) /\ Unused(fZero) /\ Unused(fLocal) /\ Unused(fTile)
  /\ Unused(fVal) /\ Unused(fTasks) /\ Unused(fLoop) /\ Unused(fCalls)
  /\ Unused(fRec) /\ Unused(pKind) /\ Unused(pSize) /\ Unused(pObj)
  /\ Unused(pCall) /\ Unused(pPrev) /\ Unused(rKind0) /\ Unused(rZero)
  /\ Unused(rPmap) /\ Unused(rOld) /\ Unused(rNew) /\ Unused(rUse)
  /\ Unused(rTodo) /\ Unused(rMsgs) /\ Unused(rPc) /\ Unused(policy)
  /\ Unused(cRank) /\ Unused(cCall) /\ Unused(sLz) /\ Unused(sRz)
  /\ Unused(sCz) /\ Unused(sPerm) /\ Unused(sLocal) /\ Unused(sArr)
  /\ Unused(sDone) /\ Unused(sAcc) /\ Unused(sOut) /\ Unused(sPc)
  /\ Unused(sGot) /\ Unused(nL) /\ Unused(nR) /\ Unused(nTau)
  /\ Unused(nCol) /\ Unused(nRes) /\ Unused(fSet) /\ Unused(fCallbacks)
  /\ Unused(fNotified) /\ Unused(fBase) /\ Unused(fCounter)
  /\ Unused(fIncs) /\ Unused(fTask) /\ Unused(fProbed) /\ Unused(fPc)
  /\ Unused(fChecks) /\ Unused(permP) /\ Unused(permQ) /\ Unused(permS)
  /\ Unused(permCall) /\ Unused(tOp) /\ Unused(tNested) /\ Unused(tContig)
  /\ Unused(tBlocks) /\ Unused(tStride) /\ Unused(tData) /\ Unused(tCall)
  /\ Unused(mScal) /\ Unused(mFactor) /\ Unused(mLC) /\ Unused(mRC)
  /\ Unused(mLSame) /\ Unused(mRSame) /\ Unused(mLTrait) /\ Unused(mRTrait)
  /\ Unused(mConst) /\ Unused(mLeft) /\ Unused(mRight) /\ Unused(mCall)
  /\ Unused(lNdebug) /\ Unused(vars_) /\ Unused(lCall) /\ Unused(dPimpl)
  /\ Unused(dInit) /\ Unused(dOut) /\ Unused(dCounter) /\ Unused(dCall)
  /\ Unused(hAlive) /\ Unused(hPimpl) /\ Unused(hUse) /\ Unused(hDeleter)
  /\ Unused(hTiles) /\ Unused(hTask) /\ Unused(hLast) /\ Unused(gSet)
  /\ Unused(gCallbacks) /\ Unused(gPc) /\ Unused(gCall) /\ Unused(gRuns)
  /\ Unused(gResched) /\ Unused(gWhile)

\* ord(c), and coord of the ordinal returned when ord did not fail.
CallOrd(c) ==
  /\ oCall.op = "none"
  /\ itPc = "idle"
  /\ LET r == ord(oLow, oHigh, m_linear_step, c)
     IN oCall' = [op |-> "ord", arg |-> c, out |-> r,
                  back |-> IF r.failed THEN r
                           ELSE coord(oLow, oHigh, m_linear_step, r.value)]
  /\ UNCHANGED <<oLow, oHigh, m_linear_step, oNdebug, m_pred, itPc, iterVars>>

\* coord(k), and ord of the coordinate returned when coord did not fail.
CallCoord(k) ==
  /\ oCall.op = "none"
  /\ itPc = "idle"
  /\ LET r == coord(oLow, oHigh, m_linear_step, k)
     IN oCall' = [op |-> "coord", arg |-> k, out |-> r,
                  back |-> IF r.failed THEN r
                           ELSE ord(oLow, oHigh, m_linear_step, r.value)]
  /\ UNCHANGED <<oLow, oHigh, m_linear_step, oNdebug, m_pred, itPc, iterVars>>

\* The caller has taken the result.
ShapeReturn ==
  /\ oCall.op # "none"
  /\ oCall' = NoShapeCall
  /\ UNCHANGED <<oLow, oHigh, m_linear_step, oNdebug, m_pred, itPc, iterVars>>

\* begin() and end() on a shape with at least one element: the iterator at
\* ordinal 0 and the end iterator ShapeIterator(*this, -1) are constructed.
\* A failed assertion ends the program unless the build defines NDEBUG.
Begin ==
  /\ oCall.op = "none"
  /\ itPc = "idle"
  /\ nelements(oLow, oHigh, 0) > 0
  /\ LET first == ShapeIterator(oLow, oHigh, m_linear_step, 0)
         last == ShapeIterator(oLow, oHigh, m_linear_step, -1)
     IN /\ itPc' = IF ~oNdebug /\ (first.failed \/ last.failed)
                     THEN "abort" ELSE "iterating"
        /\ m_current' = first.m_current
        /\ m_value' = first.m_value
  /\ itSteps' = 0
  /\ itOut' = <<>>
  /\ UNCHANGED <<oLow, oHigh, m_linear_step, oCall, oNdebug, m_pred>>

\* One step of the filtering iteration: the tuple is yielded when the
\* predicate accepts it, and the iterator is incremented.
IterStep ==
  /\ itPc = "iterating"
  /\ m_current # -1
  /\ itOut' = IF pred(m_pred, m_value) THEN Append(itOut, m_value) ELSE itOut
  /\ LET a == advance(oLow, oHigh, m_linear_step, m_current, m_value)
     IN m_current' = a.m_current /\ m_value' = a.m_value
  /\ itSteps' = itSteps + 1
  /\ UNCHANGED <<oLow, oHigh, m_linear_step, oCall, oNdebug, m_pred, itPc>>

\* The iterator compares equal to end(): the loop is left.
IterEnd ==
  /\ itPc = "iterating"
  /\ m_current = -1
  /\ itPc' = "done"
  /\ UNCHANGED <<oLow, oHigh, m_linear_step, oCall, oNdebug, m_pred, iterVars>>

\* The iterators are destroyed.
IterReturn ==
  /\ itPc \in {"done", "abort"}
  /\ itPc' = "idle"
  /\ m_current' = -1
  /\ m_value' = NoTuple
  /\ itSteps' = 0
  /\ itOut' = <<>>
  /\ UNCHANGED <<oLow, oHigh, m_linear_step, oCall, oNdebug, m_pred>>

ShapeNext ==
  \/ ShapeReturn /\ UNCHANGED notShape
  \/ Begin /\ UNCHANGED notShape
  \/ IterStep /\ UNCHANGED notShape
  \/ IterEnd /\ UNCHANGED notShape
  \/ IterReturn /\ UNCHANGED notShape
  \/ \E c \in [Axes -> CoordValues] : CallOrd(c) /\ UNCHANGED notShape
  \/ \E k \in 0 .. nelements(oLow, oHigh, 0) :
       CallCoord(k) /\ UNCHANGED notShape

(***************************************************************************)
(* Permutation<D>: a vector over the positions 0 .. D-1, its application   *)
(* to a sequence (p ^ a), composition, the unit permutation and equality.  *)
(***************************************************************************)
Positions == 0 .. PermRank - 1
SeqValues == {4, 5, 6}
Perms == {p \in [Positions -> Positions] : \A i, j \in Positions :
            p[i] = p[j] => i = j}

\* Permutation<D>::unit() and Permutation<D>(0, 1, ..., D-1).
unit == [i \in Positions |-> i]

\* Permutation<D>(): the default constructor.
Permutation == unit

\* p ^ a: the element at position i goes to position p[i].
apply(p, s) == [j \in Positions |-> s[CHOOSE i \in Positions : p[i] = j]]

\* The composition taken in the other order.
compose_reversed(p, q) == [i \in Positions |-> q[p[i]]]

\* compose(p, q): q first, then p.
compose(p, q) == [i \in Positions |-> p[q[i]]]

\* operator==: the vectors compared position by position from position i.
RECURSIVE equal_from(_, _, _)
equal_from(p, q, i) ==
  IF i = PermRank THEN TRUE
  ELSE IF p[i] # q[i] THEN FALSE
  ELSE equal_from(p, q, i + 1)

NoPermCall == [op |-> "none", out |-> 0]

PermInit ==
  /\ permP \in Perms
  /\ permQ \in Perms
  /\ permS \in [Positions -> SeqValues]
  /\ permCall = NoPermCall
  /\ Unused(nprocs) /\ Unused(initialized) /\ Unused(refs) /\ Unused(path)
  /\ Unused(registered) /\ Unused(cbRan) /\ Unused(del)
  /\ Unused(cleanup_counter_) /\ Unused(decs) /\ Unused(escaped)
  /\ Unused(throws) /\ Unused(ndebug) /\ Unused(pimpl_) /\ Unused(ext)
  /\ Unused(call) /\ Unused(fZero) /\ Unused(fLocal) /\ Unused(fTile)
  /\ Unused(fVal) /\ Unused(fTasks) /\ Unused(fLoop) /\ Unused(fCalls)
  /\ Unused(fRec) /\ Unused(pKind) /\ Unused(pSize) /\ Unused(pObj)
  /\ Unused(pCall) /\ Unused(pPrev) /\ Unused(rKind0) /\ Unused(rZero)
  /\ Unused(rPmap) /\ Unused(rOld) /\ Unused(rNew) /\ Unused(rUse)
  /\ Unused(rTodo) /\ Unused(rMsgs) /\ Unused(rPc) /\ Unused(policy)
  /\ Unused(cRank) /\ Unused(cCall) /\ Unused(sLz) /\ Unused(sRz)
  /\ Unused(sCz) /\ Unused(sPerm) /\ Unused(sLocal) /\ Unused(sArr)
  /\ Unused(sDone) /\ Unused(sAcc) /\ Unused(sOut) /\ Unused(sPc)
  /\ Unused(sGot) /\ Unused(nL) /\ Unused(nR) /\ Unused(nTau)
  /\ Unused(nCol) /\ Unused(nRes) /\ Unused(fSet) /\ Unused(fCallbacks)
  /\ Unused(fNotified) /\ Unused(fBase) /\ Unused(fCounter)
  /\ Unused(fIncs) /\ Unused(fTask) /\ Unused(fProbed) /\ Unused(fPc)
  /\ Unused(fChecks) /\ Unused(oLow) /\ Unused(oHigh)
  /\ Unused(m_linear_step) /\ Unused(oCall) /\ Unused(oNdebug)
  /\ Unused(m_pred) /\ Unused(itPc) /\ Unused(m_current) /\ Unused(m_value)
  /\ Unused(itSteps) /\ Unused(itOut) /\ Unused(tOp) /\ Unused(tNested)
  /\ Unused(tContig) /\ Unused(tBlocks) /\ Unused(tStride) /\ Unused(tData)
  /\ Unused(tCall) /\ Unused(mScal) /\ Unused(mFactor) /\ Unused(mLC)
  /\ Unused(mRC) /\ Unused(mLSame) /\ Unused(mRSame) /\ Unused(mLTrait)
  /\ Unused(mRTrait) /\ Unused(mConst) /\ Unused(mLeft) /\ Unused(mRight)
  /\ Unused(mCall) /\ Unused(lNdebug) /\ Unused(vars_) /\ Unused(lCall)
  /\ Unused(dPimpl) /\ Unused(dInit) /\ Unused(dOut) /\ Unused(dCounter)
  /\ Unused(dCall) /\ Unused(hAlive) /\ Unused(hPimpl) /\ Unused(hUse)
  /\ Unused(hDeleter) /\ Unused(hTiles) /\ Unused(hTask) /\ Unused(hLast)
  /\ Unused(gSet) /\ Unused(gCallbacks) /\ Unused(gPc) /\ Unused(gCall)
  /\ Unused(gRuns) /\ Unused(gResched) /\ Unused(gWhile)

PermOp(op, out) ==
  /\ permCall.op = "none"
  /\ permCall' = [op |-> op, out |-> out]
  /\ UNCHANGED <<permP, permQ, permS>>

\* p ^ (q ^ s)
ApplyApply == PermOp("apply_apply", apply(permP, apply(permQ, permS)))
\* compose(p, q) ^ s
ApplyComposed == PermOp("apply_composed", apply(compose(permP, permQ), permS))
\* unit ^ s
ApplyUnit == PermOp("apply_unit", apply(unit, permS))
\* Permutation<3> p0; p0 == unit
DefaultEqualsUnit == PermOp("default", equal_from(Permutation, unit, 0))
\* p == q
Equal == PermOp("equal", equal_from(permP, permQ, 0))

PermReturn ==
  /\ permCall.op # "none"
  /\ permCall' = NoPermCall
  /\ UNCHANGED <<permP, permQ, permS>>

PermNext ==
  \/ ApplyApply /\ UNCHANGED notPerm
  \/ ApplyComposed /\ UNCHANGED notPerm
  \/ ApplyUnit /\ UNCHANGED notPerm
  \/ DefaultEqualsUnit /\ UNCHANGED notPerm
  \/ Equal /\ UNCHANGED notPerm
  \/ PermReturn /\ UNCHANGED notPerm

(***************************************************************************)
(* The four tensor_reduce kernels over one argument tensor.  The elements  *)
(* of a plain tensor are scalars, those of a tensor of tensors contiguous  *)
(* plain tensors (sequences of scalars).  A tensor that is not contiguous  *)
(* keeps its rows of inner_size elements Pitch(stride) apart in storage.   *)
(***************************************************************************)
ReduceOps == {"sum", "product"}
ElemValues == {1, 2}
InnerTensors == {<<1>>, <<2>>, <<1, 2>>}

\* The identity of the reduction.
Identity(op) == IF op = "sum" THEN 0 ELSE 1
\* reduce_op(result, value)
reduce_op(op, result, value) ==
  IF op = "sum" THEN result + value ELSE result * value
\* join_op(result, temp)
join_op(op, result, temp) ==
  IF op = "sum" THEN result + temp ELSE result * temp

\* The distance in storage between two rows of a tensor.
Pitch(contig, stride) == IF contig THEN stride ELSE stride + 1
\* range().ord(i): the offset in storage of the element of ordinal i.
range_ord(contig, stride, i) ==
  (i \div stride) * Pitch(contig, stride) + (i % stride)

\* math::reduce_op(op, n, result, data): the elements data[off .. off+n-1]
\* folded into result.
RECURSIVE math_reduce_op(_, _, _, _, _)
math_reduce_op(op, n, result, data, off) ==
  IF n = 0 THEN result
  ELSE reduce_op(op, math_reduce_op(op, n - 1, result, data, off),
                 data[off + n - 1])

\* tensor_reduce, contiguous tensor: identity is the accumulator.
tensor_reduce_contiguous(op, identity, volume, data) ==
  math_reduce_op(op, volume, identity, data, 0)

\* tensor_reduce, contiguous tensor of tensors: the loop over the first n
\* inner tensors.
RECURSIVE tensor_reduce_contiguous_nested(_, _, _, _)
tensor_reduce_contiguous_nested(op, identity, n, data) ==
  IF n = 0 THEN identity
  ELSE join_op(op, tensor_reduce_contiguous_nested(op, identity, n - 1, data),
               tensor_reduce_contiguous(op, identity, Len(data[n - 1]),
                 [i \in 0 .. Len(data[n - 1]) - 1 |-> data[n - 1][i + 1]]))

\* tensor_reduce, non-contiguous tensor: the loop over the first n rows.
RECURSIVE tensor_reduce_strided(_, _, _, _, _)
tensor_reduce_strided(op, identity, n, stride, data) ==
  IF n = 0 THEN identity
  ELSE join_op(op, tensor_reduce_strided(op, identity, n - 1, stride, data),
               math_reduce_op(op, stride, identity, data,
                              range_ord(FALSE, stride, (n - 1) * stride)))

\* tensor_reduce, non-contiguous tensor of tensors: wrapper_op is never
\* called and the const argument identity is returned, not result.
tensor_reduce_strided_nested(op, identity, n, stride, data) == identity

\* The overload the argument types select.
tensor_reduce(op, identity, nested, contig, blocks, stride, data) ==
  IF contig
    THEN IF nested
           THEN tensor_reduce_contiguous_nested(op, identity,
                                                blocks * stride, data)
           ELSE tensor_reduce_contiguous(op, identity, blocks * stride, data)
    ELSE IF nested
           THEN tensor_reduce_strided_nested(op, identity, blocks, stride, data)
           ELSE tensor_reduce_strided(op, identity, blocks, stride, data)

NoReduceCall == [op |-> "none", out |-> 0]

\* A non-empty argument tensor; storage between the rows of a tensor that
\* is not contiguous belongs to another tensor.
ReduceInit ==
  /\ tOp \in ReduceOps
  /\ tNested \in BOOLEAN
  /\ tContig \in BOOLEAN
  /\ tBlocks \in 1 .. MaxBlocks
  /\ tStride \in 1 .. MaxStride
  /\ tData \in [0 .. tBlocks * Pitch(tContig, tStride) - 1 ->
                  IF tNested THEN InnerTensors ELSE ElemValues]
  /\ \A o \in DOMAIN tData :
       o % Pitch(tContig, tStride) >= tStride =>
         tData[o] = (IF tNested THEN <<1>> ELSE 1)
  /\ tCall = NoReduceCall
  /\ Unused(nprocs) /\ Unused(initialized) /\ Unused(refs) /\ Unused(path)
  /\ Unused(registered) /\ Unused(cbRan) /\ Unused(del)
  /\ Unused(cleanup_counter_) /\ Unused(decs) /\ Unused(escaped)
  /\ Unused(throws) /\ Unused(ndebug) /\ Unused(pimpl_) /\ Unused(ext)
  /\ Unused(call) /\ Unused(fZero) /\ Unused(fLocal) /\ Unused(fTile)
  /\ Unused(fVal) /\ Unused(fTasks) /\ Unused(fLoop) /\ Unused(fCalls)
  /\ Unused(fRec) /\ Unused(pKind) /\ Unused(pSize) /\ Unused(pObj)
  /\ Unused(pCall) /\ Unused(pPrev) /\ Unused(rKind0) /\ Unused(rZero)
  /\ Unused(rPmap) /\ Unused(rOld) /\ Unused(rNew) /\ Unused(rUse)
  /\ Unused(rTodo) /\ Unused(rMsgs) /\ Unused(rPc) /\ Unused(policy)
  /\ Unused(cRank) /\ Unused(cCall) /\ Unused(sLz) /\ Unused(sRz)
  /\ Unused(sCz) /\ Unused(sPerm) /\ Unused(sLocal) /\ Unused(sArr)
  /\ Unused(sDone) /\ Unused(sAcc) /\ Unused(sOut) /\ Unused(sPc)
  /\ Unused(sGot) /\ Unused(nL) /\ Unused(nR) /\ Unused(nTau)
  /\ Unused(nCol) /\ Unused(nRes) /\ Unused(fSet) /\ Unused(fCallbacks)
  /\ Unused(fNotified) /\ Unused(fBase) /\ Unused(fCounter)
  /\ Unused(fIncs) /\ Unused(fTask) /\ Unused(fProbed) /\ Unused(fPc)
  /\ Unused(fChecks) /\ Unused(oLow) /\ Unused(oHigh)
  /\ Unused(m_linear_step) /\ Unused(oCall) /\ Unused(oNdebug)
  /\ Unused(m_pred) /\ Unused(itPc) /\ Unused(m_current) /\ Unused(m_value)
  /\ Unused(itSteps) /\ Unused(itOut) /\ Unused(permP) /\ Unused(permQ)
  /\ Unused(permS) /\ Unused(permCall) /\ Unused(mScal) /\ Unused(mFactor)
  /\ Unused(mLC) /\ Unused(mRC) /\ Unused(mLSame) /\ Unused(mRSame)
  /\ Unused(mLTrait) /\ Unused(mRTrait) /\ Unused(mConst) /\ Unused(mLeft)
  /\ Unused(mRight) /\ Unused(mCall) /\ Unused(lNdebug) /\ Unused(vars_)
  /\ Unused(lCall) /\ Unused(dPimpl) /\ Unused(dInit) /\ Unused(dOut)
  /\ Unused(dCounter) /\ Unused(dCall) /\ Unused(hAlive) /\ Unused(hPimpl)
  /\ Unused(hUse) /\ Unused(hDeleter) /\ Unused(hTiles) /\ Unused(hTask)
  /\ Unused(hLast) /\ Unused(gSet) /\ Unused(gCallbacks) /\ Unused(gPc)
  /\ Unused(gCall) /\ Unused(gRuns) /\ Unused(gResched) /\ Unused(gWhile)

Reduce ==
  /\ tCall.op = "none"
  /\ tCall' = [op |-> "tensor_reduce",
               out |-> tensor_reduce(tOp, Identity(tOp), tNested, tContig,
                                     tBlocks, tStride, tData)]
  /\ UNCHANGED <<tOp, tNested, tContig, tBlocks, tStride, tData>>

ReduceReturn ==
  /\ tCall.op # "none"
  /\ tCall' = NoReduceCall
  /\ UNCHANGED <<tOp, tNested, tContig, tBlocks, tStride, tData>>

ReduceNext ==
  \/ Reduce /\ UNCHANGED notReduce
  \/ ReduceReturn /\ UNCHANGED notReduce

(***************************************************************************)
(* Mult and ScalMult: operator() with and without a permutation, and the   *)
(* eval overload the argument types select.  A tile is the row-major data  *)
(* of a 2 x 2 tensor; the permutation of the test is the transposition.    *)
(***************************************************************************)
multArgs == <<mScal, mFactor, mLC, mRC, mLSame, mRSame, mLTrait, mRTrait,
              mConst, mLeft, mRight>>
TileData == [0 .. 3 -> {1, 2}]
\* result_type(): a tile without data.
EmptyTile == [i \in {} |-> 0]
ZeroTensor == [zero |-> TRUE, data |-> EmptyTile]
MultArgs == {[zero |-> FALSE, data |-> d] : d \in TileData} \cup {ZeroTensor}

\* Permutation(1,0) applied to the 2 x 2 tile.
permute(t, perm) ==
  IF perm THEN [i \in 0 .. 3 |-> t[2 * (i % 2) + (i \div 2)]] ELSE t

\* TiledArray::mult(first, second[, factor][, perm])
mult(first, second, factor, perm) ==
  permute([i \in 0 .. 3 |-> first[i] * second[i] * factor], perm)

\* TiledArray::mult_to(first, second[, factor]): first *= second.
mult_to(first, second, factor) ==
  [i \in 0 .. 3 |-> first[i] * second[i] * factor]

\* A ZeroTensor overload without its assertion.
ZeroTensorEval_no_assert == [failed |-> FALSE, tile |-> EmptyTile]

\* Every eval overload that takes a ZeroTensor: TA_ASSERT(false), and
\* return result_type() after it.
ZeroTensorEval == [failed |-> TRUE, tile |-> EmptyTile]

\* eval(first, second, perm)
eval_perm(factor, first, second) ==
  IF first.zero \/ second.zero THEN ZeroTensorEval
  ELSE [failed |-> FALSE,
        tile |-> mult(first.data, second.data, factor, TRUE)]

\* eval<LC, RC>(first, second)
eval(LC, RC, factor, first, second) ==
  IF first.zero \/ second.zero THEN ZeroTensorEval
  ELSE IF ~(LC \/ RC)
    THEN [failed |-> FALSE,
          tile |-> mult(first.data, second.data, factor, FALSE)]
  ELSE IF LC
    THEN [failed |-> FALSE, tile |-> mult_to(first.data, second.data, factor)]
    ELSE [failed |-> FALSE, tile |-> mult_to(second.data, first.data, factor)]

\* The argument taken by the overload with RC tested before LC.
eval_modifies_right_first(LC, RC, first, second) ==
  IF first.zero \/ second.zero THEN "none"
  ELSE IF RC THEN "right" ELSE IF LC THEN "left" ELSE "none"

\* The argument eval<LC, RC> takes by non-const reference and hands to
\* mult_to as its first argument: the one multiplied in place.
eval_modifies(LC, RC, first, second) ==
  IF first.zero \/ second.zero THEN "none"
  ELSE IF ~(LC \/ RC) THEN "none"
  ELSE IF LC THEN "left" ELSE "right"

\* consume_left: can_consume_left and can_consume_right.
can_consume_left_of_left == mLTrait /\ mLSame
can_consume_right_of_left == mRC /\ ~(mConst \/ can_consume_left_of_left)
\* consume_right: can_consume_right and can_consume_left.
can_consume_right_of_right == mRTrait /\ mRSame
can_consume_left_of_right == mLC /\ ~(mConst \/ can_consume_right_of_right)

NoMultCall ==
  [op |-> "none", out |-> ZeroTensorEval_no_assert, modified |-> "none"]

\* The operation object and its two arguments, at most one a ZeroTensor.
MultInit ==
  /\ mScal \in BOOLEAN
  /\ mFactor \in 1 .. MaxFactor
  /\ ~mScal => mFactor = 1
  /\ mLC \in BOOLEAN
  /\ mRC \in BOOLEAN
  /\ mLSame \in BOOLEAN
  /\ mRSame \in BOOLEAN
  /\ mLC => mLSame
  /\ mRC => mRSame
  /\ mLTrait \in BOOLEAN
  /\ mRTrait \in BOOLEAN
  /\ mConst \in BOOLEAN
  /\ mLeft \in MultArgs
  /\ mRight \in MultArgs
  /\ ~(mLeft.zero /\ mRight.zero)
  /\ mCall = NoMultCall
  /\ Unused(nprocs) /\ Unused(initialized) /\ Unused(refs) /\ Unused(path)
  /\ Unused(registered) /\ Unused(cbRan) /\ Unused(del)
  /\ Unused(cleanup_counter_) /\ Unused(decs) /\ Unused(escaped)
  /\ Unused(throws) /\ Unused(ndebug) /\ Unused(pimpl_) /\ Unused(ext)
  /\ Unused(call) /\ Unused(fZero) /\ Unused(fLocal) /\ Unused(fTile)
  /\ Unused(fVal) /\ Unused(fTasks) /\ Unused(fLoop) /\ Unused(fCalls)
  /\ Unused(fRec) /\ Unused(pKind) /\ Unused(pSize) /\ Unused(pObj)
  /\ Unused(pCall) /\ Unused(pPrev) /\ Unused(rKind0) /\ Unused(rZero)
  /\ Unused(rPmap) /\ Unused(rOld) /\ Unused(rNew) /\ Unused(rUse)
  /\ Unused(rTodo) /\ Unused(rMsgs) /\ Unused(rPc) /\ Unused(policy)
  /\ Unused(cRank) /\ Unused(cCall) /\ Unused(sLz) /\ Unused(sRz)
  /\ Unused(sCz) /\ Unused(sPerm) /\ Unused(sLocal) /\ Unused(sArr)
  /\ Unused(sDone) /\ Unused(sAcc) /\ Unused(sOut) /\ Unused(sPc)
  /\ Unused(sGot) /\ Unused(nL) /\ Unused(nR) /\ Unused(nTau)
  /\ Unused(nCol) /\ Unused(nRes) /\ Unused(fSet) /\ Unused(fCallbacks)
  /\ Unused(fNotified) /\ Unused(fBase) /\ Unused(fCounter)
  /\ Unused(fIncs) /\ Unused(fTask) /\ Unused(fProbed) /\ Unused(fPc)
  /\ Unused(fChecks) /\ Unused(oLow) /\ Unused(oHigh)
  /\ Unused(m_linear_step) /\ Unused(oCall) /\ Unused(oNdebug)
  /\ Unused(m_pred) /\ Unused(itPc) /\ Unused(m_current) /\ Unused(m_value)
  /\ Unused(itSteps) /\ Unused(itOut) /\ Unused(permP) /\ Unused(permQ)
  /\ Unused(permS) /\ Unused(permCall) /\ Unused(tOp) /\ Unused(tNested)
  /\ Unused(tContig) /\ Unused(tBlocks) /\ Unused(tStride) /\ Unused(tData)
  /\ Unused(tCall) /\ Unused(lNdebug) /\ Unused(vars_) /\ Unused(lCall)
  /\ Unused(dPimpl) /\ Unused(dInit) /\ Unused(dOut) /\ Unused(dCounter)
  /\ Unused(dCall) /\ Unused(hAlive) /\ Unused(hPimpl) /\ Unused(hUse)
  /\ Unused(hDeleter) /\ Unused(hTiles) /\ Unused(hTask) /\ Unused(hLast)
  /\ Unused(gSet) /\ Unused(gCallbacks) /\ Unused(gPc) /\ Unused(gCall)
  /\ Unused(gRuns) /\ Unused(gResched) /\ Unused(gWhile)

\* operator()(left, right, perm)
CallPermuting ==
  /\ mCall.op = "none"
  /\ mCall' = [op |-> "perm", out |-> eval_perm(mFactor, mLeft, mRight),
               modified |-> "none"]
  /\ UNCHANGED multArgs

\* operator()(left, right)
CallPlain ==
  /\ mCall.op = "none"
  /\ mCall' = [op |-> "plain", out |-> eval(mLC, mRC, mFactor, mLeft, mRight),
               modified |-> eval_modifies(mLC, mRC, mLeft, mRight)]
  /\ UNCHANGED multArgs

\* consume_left(left, right)
ConsumeLeft ==
  /\ mCall.op = "none"
  /\ mCall' = [op |-> "consume_left",
               out |-> eval(can_consume_left_of_left, can_consume_right_of_left,
                            mFactor, mLeft, mRight),
               modified |-> eval_modifies(can_consume_left_of_left,
                              can_consume_right_of_left, mLeft, mRight)]
  /\ UNCHANGED multArgs

\* consume_right(left, right)
ConsumeRight ==
  /\ mCall.op = "none"
  /\ mCall' = [op |-> "consume_right",
               out |-> eval(can_consume_left_of_right,
                            can_consume_right_of_right, mFactor, mLeft, mRight),
               modified |-> eval_modifies(can_consume_left_of_right,
                              can_consume_right_of_right, mLeft, mRight)]
  /\ UNCHANGED multArgs

MultReturn ==
  /\ mCall.op # "none"
  /\ mCall' = NoMultCall
  /\ UNCHANGED multArgs

MultNext ==
  \/ CallPermuting /\ UNCHANGED notMult
  \/ CallPlain /\ UNCHANGED notMult
  \/ ConsumeLeft /\ UNCHANGED notMult
  \/ ConsumeRight /\ UNCHANGED notMult
  \/ MultReturn /\ UNCHANGED notMult

(***************************************************************************)
(* LeafEngine: perm_vars, init_vars(target_vars) and init_vars() on a leaf *)
(* whose stored label list is vars_.                                       *)
(***************************************************************************)
LeafLabels == {"i", "j", "k"}
\* The label lists of length at most MaxVarsLen.
LabelLists == UNION {[1 .. n -> LeafLabels] : n \in 0 .. MaxVarsLen}
\* VariableList: a label list without repeated labels.
VariableLists == {l \in LabelLists :
                    \A a, b \in 1 .. Len(l) : l[a] = l[b] => a = b}
\* The lists an array expression can carry: at least one label.
StoredLists == {l \in VariableLists : Len(l) > 0}

\* init_vars without its test.
init_vars_unchecked(ndbg, target, stored) == "ok"

\* VariableList::is_permutation: the same length and every label of the
\* target is a label of the stored list.
is_permutation(target, stored) ==
  /\ Len(target) = Len(stored)
  /\ \A a \in 1 .. Len(target) : \E b \in 1 .. Len(stored) :
       target[a] = stored[b]

\* init_vars(target_vars): the test is compiled under #ifndef NDEBUG.
init_vars(ndbg, target, stored) ==
  IF ~ndbg /\ ~is_permutation(target, stored) THEN "exception" ELSE "ok"

NoLeafCall == [op |-> "none", arg |-> <<>>, outcome |-> "ok", before |-> <<>>]

\* LeafEngine(expr): vars_ = VariableList(expr.derived().vars()).
LeafInit ==
  /\ lNdebug \in BOOLEAN
  /\ vars_ \in StoredLists
  /\ lCall = NoLeafCall
  /\ Unused(nprocs) /\ Unused(initialized) /\ Unused(refs) /\ Unused(path)
  /\ Unused(registered) /\ Unused(cbRan) /\ Unused(del)
  /\ Unused(cleanup_counter_) /\ Unused(decs) /\ Unused(escaped)
  /\ Unused(throws) /\ Unused(ndebug) /\ Unused(pimpl_) /\ Unused(ext)
  /\ Unused(call) /\ Unused(fZero) /\ Unused(fLocal) /\ Unused(fTile)
  /\ Unused(fVal) /\ Unused(fTasks) /\ Unused(fLoop) /\ Unused(fCalls)
  /\ Unused(fRec) /\ Unused(pKind) /\ Unused(pSize) /\ Unused(pObj)
  /\ Unused(pCall) /\ Unused(pPrev) /\ Unused(rKind0) /\ Unused(rZero)
  /\ Unused(rPmap) /\ Unused(rOld) /\ Unused(rNew) /\ Unused(rUse)
  /\ Unused(rTodo) /\ Unused(rMsgs) /\ Unused(rPc) /\ Unused(policy)
  /\ Unused(cRank) /\ Unused(cCall) /\ Unused(sLz) /\ Unused(sRz)
  /\ Unused(sCz) /\ Unused(sPerm) /\ Unused(sLocal) /\ Unused(sArr)
  /\ Unused(sDone) /\ Unused(sAcc) /\ Unused(sOut) /\ Unused(sPc)
  /\ Unused(sGot) /\ Unused(nL) /\ Unused(nR) /\ Unused(nTau)
  /\ Unused(nCol) /\ Unused(nRes) /\ Unused(fSet) /\ Unused(fCallbacks)
  /\ Unused(fNotified) /\ Unused(fBase) /\ Unused(fCounter)
  /\ Unused(fIncs) /\ Unused(fTask) /\ Unused(fProbed) /\ Unused(fPc)
  /\ Unused(fChecks) /\ Unused(oLow) /\ Unused(oHigh)
  /\ Unused(m_linear_step) /\ Unused(oCall) /\ Unused(oNdebug)
  /\ Unused(m_pred) /\ Unused(itPc) /\ Unused(m_current) /\ Unused(m_value)
  /\ Unused(itSteps) /\ Unused(itOut) /\ Unused(permP) /\ Unused(permQ)
  /\ Unused(permS) /\ Unused(permCall) /\ Unused(tOp) /\ Unused(tNested)
  /\ Unused(tContig) /\ Unused(tBlocks) /\ Unused(tStride) /\ Unused(tData)
  /\ Unused(tCall) /\ Unused(mScal) /\ Unused(mFactor) /\ Unused(mLC)
  /\ Unused(mRC) /\ Unused(mLSame) /\ Unused(mRSame) /\ Unused(mLTrait)
  /\ Unused(mRTrait) /\ Unused(mConst) /\ Unused(mLeft) /\ Unused(mRight)
  /\ Unused(mCall) /\ Unused(dPimpl) /\ Unused(dInit) /\ Unused(dOut)
  /\ Unused(dCounter) /\ Unused(dCall) /\ Unused(hAlive) /\ Unused(hPimpl)
  /\ Unused(hUse) /\ Unused(hDeleter) /\ Unused(hTiles) /\ Unused(hTask)
  /\ Unused(hLast) /\ Unused(gSet) /\ Unused(gCallbacks) /\ Unused(gPc)
  /\ Unused(gCall) /\ Unused(gRuns) /\ Unused(gResched) /\ Unused(gWhile)

\* perm_vars(const VariableList&) { }
PermVars(target) ==
  /\ lCall.op = "none"
  /\ lCall' = [op |-> "perm_vars", arg |-> target, outcome |-> "ok",
               before |-> vars_]
  /\ UNCHANGED <<lNdebug, vars_>>

\* init_vars(const VariableList& target_vars)
InitVarsTarget(target) ==
  /\ lCall.op = "none"
  /\ lCall' = [op |-> "init_vars", arg |-> target,
               outcome |-> init_vars(lNdebug, target, vars_),
               before |-> vars_]
  /\ UNCHANGED <<lNdebug, vars_>>

\* init_vars() { }
InitVarsDefault ==
  /\ lCall.op = "none"
  /\ lCall' = [op |-> "init_vars_default", arg |-> <<>>, outcome |-> "ok",
               before |-> vars_]
  /\ UNCHANGED <<lNdebug, vars_>>

LeafReturn ==
  /\ lCall.op # "none"
  /\ lCall' = NoLeafCall
  /\ UNCHANGED <<lNdebug, vars_>>

LeafNext ==
  \/ \E target \in VariableLists : PermVars(target) /\ UNCHANGED notLeaf
  \/ \E target \in VariableLists : InitVarsTarget(target) /\ UNCHANGED notLeaf
  \/ InitVarsDefault /\ UNCHANGED notLeaf
  \/ LeafReturn /\ UNCHANGED notLeaf

(***************************************************************************)
(* One call of lazy_deleter(pimpl), from its first test on.                *)
(***************************************************************************)
NoEffect == [path |-> "null", inc |-> 0, dec |-> 0, delNow |-> 0,
             reg |-> FALSE, escapes |-> FALSE]

\* lazy_deleter without the test of its argument.
lazy_deleter_untested(pimpl, isInit, out) == lazy_deleter(isInit, out)

\* lazy_deleter(pimpl): if(pimpl) { ... }
lazy_deleter_call(pimpl, isInit, out) ==
  IF pimpl = "null" THEN NoEffect ELSE lazy_deleter(isInit, out)

NoDeleterCall == [op |-> "none", effect |-> NoEffect, counter |-> 0]

DeleterInit ==
  /\ dPimpl \in {"null", "impl"}
  /\ dInit \in BOOLEAN
  /\ dOut \in LazySyncOutcomes
  /\ dCounter \in 0 .. NArrays
  /\ dCall = NoDeleterCall
  /\ Unused(nprocs) /\ Unused(initialized) /\ Unused(refs) /\ Unused(path)
  /\ Unused(registered) /\ Unused(cbRan) /\ Unused(del)
  /\ Unused(cleanup_counter_) /\ Unused(decs) /\ Unused(escaped)
  /\ Unused(throws) /\ Unused(ndebug) /\ Unused(pimpl_) /\ Unused(ext)
  /\ Unused(call) /\ Unused(fZero) /\ Unused(fLocal) /\ Unused(fTile)
  /\ Unused(fVal) /\ Unused(fTasks) /\ Unused(fLoop) /\ Unused(fCalls)
  /\ Unused(fRec) /\ Unused(pKind) /\ Unused(pSize) /\ Unused(pObj)
  /\ Unused(pCall) /\ Unused(pPrev) /\ Unused(rKind0) /\ Unused(rZero)
  /\ Unused(rPmap) /\ Unused(rOld) /\ Unused(rNew) /\ Unused(rUse)
  /\ Unused(rTodo) /\ Unused(rMsgs) /\ Unused(rPc) /\ Unused(policy)
  /\ Unused(cRank) /\ Unused(cCall) /\ Unused(sLz) /\ Unused(sRz)
  /\ Unused(sCz) /\ Unused(sPerm) /\ Unused(sLocal) /\ Unused(sArr)
  /\ Unused(sDone) /\ Unused(sAcc) /\ Unused(sOut) /\ Unused(sPc)
  /\ Unused(sGot) /\ Unused(nL) /\ Unused(nR) /\ Unused(nTau)
  /\ Unused(nCol) /\ Unused(nRes) /\ Unused(fSet) /\ Unused(fCallbacks)
  /\ Unused(fNotified) /\ Unused(fBase) /\ Unused(fCounter)
  /\ Unused(fIncs) /\ Unused(fTask) /\ Unused(fProbed) /\ Unused(fPc)
  /\ Unused(fChecks) /\ Unused(oLow) /\ Unused(oHigh)
  /\ Unused(m_linear_step) /\ Unused(oCall) /\ Unused(oNdebug)
  /\ Unused(m_pred) /\ Unused(itPc) /\ Unused(m_current) /\ Unused(m_value)
  /\ Unused(itSteps) /\ Unused(itOut) /\ Unused(permP) /\ Unused(permQ)
  /\ Unused(permS) /\ Unused(permCall) /\ Unused(tOp) /\ Unused(tNested)
  /\ Unused(tContig) /\ Unused(tBlocks) /\ Unused(tStride) /\ Unused(tData)
  /\ Unused(tCall) /\ Unused(mScal) /\ Unused(mFactor) /\ Unused(mLC)
  /\ Unused(mRC) /\ Unused(mLSame) /\ Unused(mRSame) /\ Unused(mLTrait)
  /\ Unused(mRTrait) /\ Unused(mConst) /\ Unused(mLeft) /\ Unused(mRight)
  /\ Unused(mCall) /\ Unused(lNdebug) /\ Unused(vars_) /\ Unused(lCall)
  /\ Unused(hAlive) /\ Unused(hPimpl) /\ Unused(hUse) /\ Unused(hDeleter)
  /\ Unused(hTiles) /\ Unused(hTask) /\ Unused(hLast) /\ Unused(gSet)
  /\ Unused(gCallbacks) /\ Unused(gPc) /\ Unused(gCall) /\ Unused(gRuns)
  /\ Unused(gResched) /\ Unused(gWhile)

\* lazy_deleter(pimpl) runs to its return; counter is cleanup_counter_ then.
CallLazyDeleter ==
  /\ dCall.op = "none"
  /\ LET e == lazy_deleter_call(dPimpl, dInit, dOut)
     IN dCall' = [op |-> "lazy_deleter", effect |-> e,
                  counter |-> dCounter + e.inc - e.dec]
  /\ UNCHANGED <<dPimpl, dInit, dOut, dCounter>>

DeleterReturn ==
  /\ dCall.op # "none"
  /\ dCall' = NoDeleterCall
  /\ UNCHANGED <<dPimpl, dInit, dOut, dCounter>>

DeleterNext ==
  \/ CallLazyDeleter /\ UNCHANGED notDeleter
  \/ DeleterReturn /\ UNCHANGED notDeleter

(***************************************************************************)
(* DistArray objects as handles: copy construction, assignment, swap and   *)
(* destruction on one rank, and the task init_tiles adds for a tile.       *)
(***************************************************************************)
Handles == 1 .. NHandles
Impls == 1 .. NImpls

\* DistArray(const DistArray_& other) : pimpl_(other.pimpl_)
copy_ctor(other) == other

\* An assignment that leaves pimpl_ as it was.
operator_assign_kept(this, other) == this

\* operator=(other): pimpl_ = other.pimpl_
operator_assign(this, other) == other

\* shared_ptr takes a share of i: the use count goes up by one.
acquire(use, i) == IF i = 0 THEN use ELSE [use EXCEPT ![i] = @ + 1]

\* shared_ptr gives up a share of i: the use count goes down by one.
release(use, i) == IF i = 0 THEN use ELSE [use EXCEPT ![i] = @ - 1]

\* The deleter given to the shared_ptr in init() is called when the use
\* count of i has reached zero.
deleter_calls(use, calls, i) ==
  IF i # 0 /\ use[i] = 0 THEN [calls EXCEPT ![i] = @ + 1] ELSE calls

NoTileTask == [state |-> "none", array |-> 0, impl |-> 0, deref |-> "none"]
NoOp == [op |-> "none", this |-> 0, other |-> 0]

ShareInit ==
  /\ hAlive = [h \in Handles |-> h <= NImpls]
  /\ hPimpl = [h \in Handles |-> IF h <= NImpls THEN h ELSE 0]
  /\ hUse = [i \in Impls |-> 1]
  /\ hDeleter = [i \in Impls |-> 0]
  /\ hTiles = [i \in Impls |-> 0]
  /\ hTask = NoTileTask
  /\ hLast = NoOp
  /\ Unused(nprocs) /\ Unused(initialized) /\ Unused(refs) /\ Unused(path)
  /\ Unused(registered) /\ Unused(cbRan) /\ Unused(del)
  /\ Unused(cleanup_counter_) /\ Unused(decs) /\ Unused(escaped)
  /\ Unused(throws) /\ Unused(ndebug) /\ Unused(pimpl_) /\ Unused(ext)
  /\ Unused(call) /\ Unused(fZero) /\ Unused(fLocal) /\ Unused(fTile)
  /\ Unused(fVal) /\ Unused(fTasks) /\ Unused(fLoop) /\ Unused(fCalls)
  /\ Unused(fRec) /\ Unused(pKind) /\ Unused(pSize) /\ Unused(pObj)
  /\ Unused(pCall) /\ Unused(pPrev) /\ Unused(rKind0) /\ Unused(rZero)
  /\ Unused(rPmap) /\ Unused(rOld) /\ Unused(rNew) /\ Unused(rUse)
  /\ Unused(rTodo) /\ Unused(rMsgs) /\ Unused(rPc) /\ Unused(policy)
  /\ Unused(cRank) /\ Unused(cCall) /\ Unused(sLz) /\ Unused(sRz)
  /\ Unused(sCz) /\ Unused(sPerm) /\ Unused(sLocal) /\ Unused(sArr)
  /\ Unused(sDone) /\ Unused(sAcc) /\ Unused(sOut) /\ Unused(sPc)
  /\ Unused(sGot) /\ Unused(nL) /\ Unused(nR) /\ Unused(nTau)
  /\ Unused(nCol) /\ Unused(nRes) /\ Unused(fSet) /\ Unused(fCallbacks)
  /\ Unused(fNotified) /\ Unused(fBase) /\ Unused(fCounter)
  /\ Unused(fIncs) /\ Unused(fTask) /\ Unused(fProbed) /\ Unused(fPc)
  /\ Unused(fChecks) /\ Unused(oLow) /\ Unused(oHigh)
  /\ Unused(m_linear_step) /\ Unused(oCall) /\ Unused(oNdebug)
  /\ Unused(m_pred) /\ Unused(itPc) /\ Unused(m_current) /\ Unused(m_value)
  /\ Unused(itSteps) /\ Unused(itOut) /\ Unused(permP) /\ Unused(permQ)
  /\ Unused(permS) /\ Unused(permCall) /\ Unused(tOp) /\ Unused(tNested)
  /\ Unused(tContig) /\ Unused(tBlocks) /\ Unused(tStride) /\ Unused(tData)
  /\ Unused(tCall) /\ Unused(mScal) /\ Unused(mFactor) /\ Unused(mLC)
  /\ Unused(mRC) /\ Unused(mLSame) /\ Unused(mRSame) /\ Unused(mLTrait)
  /\ Unused(mRTrait) /\ Unused(mConst) /\ Unused(mLeft) /\ Unused(mRight)
  /\ Unused(mCall) /\ Unused(lNdebug) /\ Unused(vars_) /\ Unused(lCall)
  /\ Unused(dPimpl) /\ Unused(dInit) /\ Unused(dOut) /\ Unused(dCounter)
  /\ Unused(dCall) /\ Unused(gSet) /\ Unused(gCallbacks) /\ Unused(gPc)
  /\ Unused(gCall) /\ Unused(gRuns) /\ Unused(gResched) /\ Unused(gWhile)

\* DistArray() : pimpl_()
DefaultCtor(h) ==
  /\ ~hAlive[h]
  /\ hAlive' = [hAlive EXCEPT ![h] = TRUE]
  /\ hPimpl' = [hPimpl EXCEPT ![h] = 0]
  /\ hLast' = [NoOp EXCEPT !.op = "default"]
  /\ UNCHANGED <<hUse, hDeleter, hTiles, hTask>>

\* DistArray h(g)
CopyCtor(h, g) ==
  /\ ~hAlive[h] /\ hAlive[g]
  /\ hAlive' = [hAlive EXCEPT ![h] = TRUE]
  /\ hPimpl' = [hPimpl EXCEPT ![h] = copy_ctor(hPimpl[g])]
  /\ hUse' = acquire(hUse, copy_ctor(hPimpl[g]))
  /\ hLast' = [op |-> "copy", this |-> h, other |-> g]
  /\ UNCHANGED <<hDeleter, hTiles, hTask>>

\* h = g: the new pointer is shared first, the old one given up after.
Assign(h, g) ==
  /\ hAlive[h] /\ hAlive[g]
  /\ LET new == operator_assign(hPimpl[h], hPimpl[g])
         use == release(acquire(hUse, new), hPimpl[h])
     IN /\ hPimpl' = [hPimpl EXCEPT ![h] = new]
        /\ hUse' = use
        /\ hDeleter' = IF new = hPimpl[h] THEN hDeleter
                       ELSE deleter_calls(use, hDeleter, hPimpl[h])
  /\ hLast' = [op |-> "assign", this |-> h, other |-> g]
  /\ UNCHANGED <<hAlive, hTiles, hTask>>

\* h.swap(g): std::swap(pimpl_, other.pimpl_); a swap of an object with
\* itself changes nothing.
Swap(h, g) ==
  /\ h < g
  /\ hAlive[h] /\ hAlive[g]
  /\ hPimpl' = [hPimpl EXCEPT ![h] = hPimpl[g], ![g] = hPimpl[h]]
  /\ hLast' = [NoOp EXCEPT !.op = "swap"]
  /\ UNCHANGED <<hAlive, hUse, hDeleter, hTiles, hTask>>

\* ~DistArray(): the member pimpl_ is destroyed.
Dtor(h) ==
  /\ hAlive[h]
  /\ hAlive' = [hAlive EXCEPT ![h] = FALSE]
  /\ hPimpl' = [hPimpl EXCEPT ![h] = 0]
  /\ LET use == release(hUse, hPimpl[h])
     IN /\ hUse' = use
        /\ hDeleter' = deleter_calls(use, hDeleter, hPimpl[h])
  /\ hLast' = [NoOp EXCEPT !.op = "dtor"]
  /\ UNCHANGED <<hTiles, hTask>>

\* h.init_tiles(op) adds the task for a tile: taskq.add(lambda, this, index,
\* op).  The task keeps the address of the DistArray object h.
InitTilesTask(h) ==
  /\ hAlive[h] /\ hPimpl[h] # 0
  /\ hTask.state = "none"
  /\ hTask' = [state |-> "queued", array |-> h, impl |-> hPimpl[h],
               deref |-> "none"]
  /\ hLast' = [NoOp EXCEPT !.op = "init_tiles"]
  /\ UNCHANGED <<hAlive, hPimpl, hUse, hDeleter, hTiles>>

\* What array->trange() finds behind the address the task kept: the object
\* is gone, its pimpl_ is null, it refers to another implementation, or it
\* refers to the implementation init_tiles was called on.
array_trange(alive, pimpl, task) ==
  IF ~alive[task.array] THEN "dangling"
  ELSE IF pimpl[task.array] = 0 THEN "null"
  ELSE IF pimpl[task.array] # task.impl THEN "other"
  ELSE "same"

\* The task runs: op(array->trange().make_tile_range(index)).  Through a
\* dangling address the read has no defined outcome: a tile may or may not
\* come out of it.
RunTileTask ==
  /\ hTask.state = "queued"
  /\ LET d == array_trange(hAlive, hPimpl, hTask) IN
       /\ hTask' = [hTask EXCEPT !.state = "ran", !.deref = d]
       /\ \/ /\ d \in {"same", "other", "dangling"}
             /\ hTiles' = [hTiles EXCEPT ![hTask.impl] = @ + 1]
          \/ /\ d \in {"null", "dangling"}
             /\ UNCHANGED hTiles
  /\ hLast' = [NoOp EXCEPT !.op = "task"]
  /\ UNCHANGED <<hAlive, hPimpl, hUse, hDeleter>>

ShareNext ==
  \/ \E h \in Handles : DefaultCtor(h) /\ UNCHANGED notShare
  \/ \E h, g \in Handles : CopyCtor(h, g) /\ UNCHANGED notShare
  \/ \E h, g \in Handles : Assign(h, g) /\ UNCHANGED notShare
  \/ \E h, g \in Handles : Swap(h, g) /\ UNCHANGED notShare
  \/ \E h \in Handles : Dtor(h) /\ UNCHANGED notShare
  \/ \E h \in Handles : InitTilesTask(h) /\ UNCHANGED notShare
  \/ RunTileTask /\ UNCHANGED notShare

(***************************************************************************)
(* tilearray_future_get_tile(future, eu, task), called from the bodies of  *)
(* PaRSEC tasks that read one future while another thread sets it.  The    *)
(* future keeps a callback registered while it is unset and notifies it    *)
(* when it is set; it notifies at once a callback registered when it is    *)
(* set already.                                                            *)
(***************************************************************************)
PTasks == 1 .. NPTasks
NoGetTile == [res |-> "none", registered |-> FALSE, first |-> "none"]

\* Task t is inside its body.
Executing(pc, t) == pc[t] \in {"probe", "register", "return"}

\* PaRSECRescheduleCallback::notify: __parsec_schedule(eu, task, 0).
notify(resched, t) == [resched EXCEPT ![t] = @ + 1]

ParsecInit ==
  /\ gSet \in BOOLEAN
  /\ gCallbacks = {}
  /\ gPc = [t \in PTasks |-> "idle"]
  /\ gCall = [t \in PTasks |-> NoGetTile]
  /\ gRuns = [t \in PTasks |-> 0]
  /\ gResched = [t \in PTasks |-> 0]
  /\ gWhile = [t \in PTasks |-> FALSE]
  /\ Unused(nprocs) /\ Unused(initialized) /\ Unused(refs) /\ Unused(path)
  /\ Unused(registered) /\ Unused(cbRan) /\ Unused(del)
  /\ Unused(cleanup_counter_) /\ Unused(decs) /\ Unused(escaped)
  /\ Unused(throws) /\ Unused(ndebug) /\ Unused(pimpl_) /\ Unused(ext)
  /\ Unused(call) /\ Unused(fZero) /\ Unused(fLocal) /\ Unused(fTile)
  /\ Unused(fVal) /\ Unused(fTasks) /\ Unused(fLoop) /\ Unused(fCalls)
  /\ Unused(fRec) /\ Unused(pKind) /\ Unused(pSize) /\ Unused(pObj)
  /\ Unused(pCall) /\ Unused(pPrev) /\ Unused(rKind0) /\ Unused(rZero)
  /\ Unused(rPmap) /\ Unused(rOld) /\ Unused(rNew) /\ Unused(rUse)
  /\ Unused(rTodo) /\ Unused(rMsgs) /\ Unused(rPc) /\ Unused(policy)
  /\ Unused(cRank) /\ Unused(cCall) /\ Unused(sLz) /\ Unused(sRz)
  /\ Unused(sCz) /\ Unused(sPerm) /\ Unused(sLocal) /\ Unused(sArr)
  /\ Unused(sDone) /\ Unused(sAcc) /\ Unused(sOut) /\ Unused(sPc)
  /\ Unused(sGot) /\ Unused(nL) /\ Unused(nR) /\ Unused(nTau)
  /\ Unused(nCol) /\ Unused(nRes) /\ Unused(fSet) /\ Unused(fCallbacks)
  /\ Unused(fNotified) /\ Unused(fBase) /\ Unused(fCounter)
  /\ Unused(fIncs) /\ Unused(fTask) /\ Unused(fProbed) /\ Unused(fPc)
  /\ Unused(fChecks) /\ Unused(oLow) /\ Unused(oHigh)
  /\ Unused(m_linear_step) /\ Unused(oCall) /\ Unused(oNdebug)
  /\ Unused(m_pred) /\ Unused(itPc) /\ Unused(m_current) /\ Unused(m_value)
  /\ Unused(itSteps) /\ Unused(itOut) /\ Unused(permP) /\ Unused(permQ)
  /\ Unused(permS) /\ Unused(permCall) /\ Unused(tOp) /\ Unused(tNested)
  /\ Unused(tContig) /\ Unused(tBlocks) /\ Unused(tStride) /\ Unused(tData)
  /\ Unused(tCall) /\ Unused(mScal) /\ Unused(mFactor) /\ Unused(mLC)
  /\ Unused(mRC) /\ Unused(mLSame) /\ Unused(mRSame) /\ Unused(mLTrait)
  /\ Unused(mRTrait) /\ Unused(mConst) /\ Unused(mLeft) /\ Unused(mRight)
  /\ Unused(mCall) /\ Unused(lNdebug) /\ Unused(vars_) /\ Unused(lCall)
  /\ Unused(dPimpl) /\ Unused(dInit) /\ Unused(dOut) /\ Unused(dCounter)
  /\ Unused(dCall) /\ Unused(hAlive) /\ Unused(hPimpl) /\ Unused(hUse)
  /\ Unused(hDeleter) /\ Unused(hTiles) /\ Unused(hTask) /\ Unused(hLast)

\* The scheduler enters the body of task t: the first time, or once more
\* for each time the task was scheduled again.
EnterTask(t) ==
  /\ gPc[t] = "idle"
  /\ gRuns[t] < 1 + gResched[t]
  /\ gRuns' = [gRuns EXCEPT ![t] = @ + 1]
  /\ gPc' = [gPc EXCEPT ![t] = "probe"]
  /\ UNCHANGED <<gSet, gCallbacks, gCall, gResched, gWhile>>

\* if( Future->probe() ) { T = Future->get(); res = T.data(); return res; }
GetTileProbe(t) ==
  /\ gPc[t] = "probe"
  /\ IF gSet
       THEN /\ gCall' = [gCall EXCEPT ![t] =
                 [res |-> "pointer", registered |-> FALSE,
                  first |-> IF @.first = "none" THEN "pointer" ELSE @.first]]
            /\ gPc' = [gPc EXCEPT ![t] = "return"]
       ELSE /\ gPc' = [gPc EXCEPT ![t] = "register"]
            /\ UNCHANGED gCall
  /\ UNCHANGED <<gSet, gCallbacks, gRuns, gResched, gWhile>>

\* else { Future->register_callback(new PaRSECRescheduleCallback(eu, task));
\* return NULL; }
GetTileRegister(t) ==
  /\ gPc[t] = "register"
  /\ IF gSet
       THEN /\ gResched' = notify(gResched, t)
            /\ gWhile' = [gWhile EXCEPT ![t] = gResched'[t] > gResched[t]]
            /\ UNCHANGED gCallbacks
       ELSE /\ gCallbacks' = gCallbacks \cup {t}
            /\ UNCHANGED <<gResched, gWhile>>
  /\ gCall' = [gCall EXCEPT ![t] =
       [res |-> "NULL", registered |-> TRUE,
        first |-> IF @.first = "none" THEN "NULL" ELSE @.first]]
  /\ gPc' = [gPc EXCEPT ![t] = "return"]
  /\ UNCHANGED <<gSet, gRuns>>

\* The body of task t returns to the scheduler.
TaskBodyReturns(t) ==
  /\ gPc[t] = "return"
  /\ gPc' = [gPc EXCEPT ![t] = "idle"]
  /\ UNCHANGED <<gSet, gCallbacks, gCall, gRuns, gResched, gWhile>>

RECURSIVE NotifyAll(_, _)
NotifyAll(resched, cbs) ==
  IF cbs = {} THEN resched
  ELSE LET t == CHOOSE u \in cbs : TRUE
       IN NotifyAll(notify(resched, t), cbs \ {t})

\* Another thread sets the future: every callback it keeps is notified.
SetTileFuture ==
  /\ ~gSet
  /\ gSet' = TRUE
  /\ gResched' = NotifyAll(gResched, gCallbacks)
  /\ gWhile' = [t \in PTasks |->
                  gWhile[t] \/ (gResched'[t] > gResched[t] /\ Executing(gPc, t))]
  /\ gCallbacks' = {}
  /\ UNCHANGED <<gPc, gCall, gRuns>>

ParsecNext ==
  \/ \E t \in PTasks : EnterTask(t) /\ UNCHANGED notParsec
  \/ \E t \in PTasks : GetTileProbe(t) /\ UNCHANGED notParsec
  \/ \E t \in PTasks : GetTileRegister(t) /\ UNCHANGED notParsec
  \/ \E t \in PTasks : TaskBodyReturns(t) /\ UNCHANGED notParsec
  \/ SetTileFuture /\ UNCHANGED notParsec

(***************************************************************************)
(* Specifications.                                                         *)
(***************************************************************************)
SpecCleanup == CleanupInit /\ [][CleanupNext]_vars

SpecHandle == HandleInit /\ [][HandleNext]_vars

SpecFill == FillInit /\ [][FillNext]_vars

SpecPmap == PmapInit /\ [][PmapNext]_vars

SpecRepl == ReplInit /\ [][ReplNext]_vars

SpecCtor == CtorInit /\ [][CtorNext]_vars

SpecSumma == SummaInit /\ [][SummaNext]_vars

\* The broadcasts of the non-zero input tiles complete (their futures are
\* eventually set), queued GEMM tasks are run, and a wait() that can return
\* does.
SummaProgress ==
  /\ \/ \E side \in {"left", "right"}, k \in Stripes : StripeArrive(side, k)
     \/ \E j \in Cols, k \in Stripes : Gemm(j, k)
     \/ WaitReturn
  /\ UNCHANGED notSumma

SpecSummaLive == SpecSumma /\ WF_vars(SummaProgress)

\* The thread inside init_tiles goes on and every task in the queue is run.
FillProgress ==
  /\ \/ InitTilesTop
     \/ InitTilesAdd
     \/ \E task \in fTasks : RunTask(task)
  /\ UNCHANGED notFill

SpecFillLive == SpecFill /\ WF_vars(FillProgress)

SpecSparse == SparseInit /\ [][SparseNext]_vars

SpecFuture == FutureInit /\ [][FutureNext]_vars

SpecShape == ShapeInit /\ [][ShapeNext]_vars

SpecPerm == PermInit /\ [][PermNext]_vars

SpecReduce == ReduceInit /\ [][ReduceNext]_vars

SpecMult == MultInit /\ [][MultNext]_vars

SpecLeaf == LeafInit /\ [][LeafNext]_vars

SpecDeleter == DeleterInit /\ [][DeleterNext]_vars

SpecShare == ShareInit /\ [][ShareNext]_vars

SpecParsec == ParsecInit /\ [][ParsecNext]_vars

(***************************************************************************)
(* Claims about lazy cleanup, checked under SpecCleanup.                   *)
(***************************************************************************)
\* Rank r has called lazy_sync for the id of array a.
Entered(r, a) == path[r][a] \in {"ok", "throw_before", "throw_after"}

C2_AbsorbedAndDecremented ==
  /\ escaped = FALSE
  /\ \A r \in Ranks, a \in Arrays :
       /\ path[r][a] \in {"throw_before", "throw_after"} => decs[r][a] >= 1
       /\ path[r][a] = "ok" => decs[r][a] = (IF cbRan[r][a] THEN 1 ELSE 0)
       /\ path[r][a] \in {"held", "uninit"} => decs[r][a] = 0

\* C2 witness: a lazy_sync has thrown, the call has returned and the counter
\* of the rank is back at zero.
C2_Witness ==
  \E r \in Ranks, a \in Arrays :
    /\ path[r][a] = "throw_before"
    /\ decs[r][a] = 1
    /\ cleanup_counter_[r] = 0
    /\ throws = 1

\* C3: once the handles of all arrays have been dropped on all ranks, a
\* normal return of wait_for_lazy_cleanup on a rank (its guard: the runtime
\* is initialised and cleanup_counter_ is 0) finds every implementation of
\* the rank deleted.
C3_WaitReturnsWithAllDeleted ==
  \A r \in Ranks :
    ( /\ \A q \in Ranks, a \in Arrays : refs[q][a] = 0
      /\ ENABLED wait_for_lazy_cleanup(r) )
    => \A a \in Arrays : del[r][a] >= 1

\* C25: on every path of lazy_deleter (lazy_sync succeeds, lazy_sync throws
\* before or after it has taken the lambda, runtime not initialised) no
\* implementation is deleted more than once, an implementation whose
\* lazy_deleter call and lambda have both finished has been deleted once,
\* and the pending-cleanup counter of no rank is negative.
C25_DeletedOnceCounterNeverNegative ==
  \A r \in Ranks :
    /\ cleanup_counter_[r] >= 0
    /\ \A a \in Arrays :
         /\ del[r][a] <= 1
         /\ path[r][a] \in {"uninit", "throw_before", "throw_after"} =>
              del[r][a] >= 1

(***************************************************************************)
(* Claims about the entry checks, checked under SpecHandle.                *)
(***************************************************************************)
\* The operations C5 lists: the accessors, tile access, fill/init_tiles,
\* make_replicated and the label-string call operator.
C5Ops == CheckedOps \cup UncheckedOps \cup IndexOps \cup {"call_vars"}

\* C5: on a default-constructed array every listed operation is rejected
\* with the uninitialized-array user error before any implementation state
\* is accessed.
C5_UninitializedRejectsAll ==
  (pimpl_ = "null" /\ call.op \in C5Ops) =>
    (call.outcome = "uninit_error" /\ ~call.touched)

\* An index that names a tile of the range: an ordinal in [0, volume), or a
\* coordinate of the range's rank inside the box.
ValidIndex(e, idx) ==
  IF idx.kind = "ord"
    THEN idx.ord \in 0 .. (Volume(e) - 1)
    ELSE /\ Len(idx.coord) = Len(e)
         /\ \A d \in 1 .. Len(e) : idx.coord[d] \in 0 .. (e[d] - 1)

\* C6: on an initialised array, every operation that takes a tile index
\* raises a user error for an ordinal or coordinate outside the tile range
\* and for a coordinate whose length is not the rank, and then does not
\* reach the implementation's tiles or futures.
C6_BadIndexRejected ==
  (pimpl_ = "impl" /\ call.op \in IndexOps /\ ~ValidIndex(ext, call.idx)) =>
    (call.outcome \in {"range_error", "dim_error"} /\ ~call.touched)

\* C6 witness: a set with a coordinate one longer than the rank, which
\* includes() let pass, has been rejected by the length check.
C6_Witness ==
  /\ pimpl_ = "impl"
  /\ call.op = "set_future"
  /\ call.idx.kind = "coord"
  /\ Len(call.idx.coord) = Len(ext) + 1
  /\ call.outcome = "dim_error"
  /\ ~call.touched

\* The labels of a string: its pieces between commas.
RECURSIVE SplitVars(_)
SplitVars(v) ==
  IF \A i \in 1 .. Len(v) : v[i] # ","
    THEN <<v>>
    ELSE LET k == CHOOSE i \in 1 .. Len(v) :
                    v[i] = "," /\ \A j \in 1 .. (i - 1) : v[j] # ","
         IN <<SubSeq(v, 1, k - 1)>> \o SplitVars(SubSeq(v, k + 1, Len(v)))

LabelCount(v) == Len(SplitVars(v))

\* C7 (as stated): calling an array with a label string gives an expression
\* only if the number of comma-separated labels equals the rank; for every
\* other string the call is a fatal error.
C7_LabelCountEnforced ==
  (pimpl_ = "impl" /\ call.op = "call_vars") =>
    /\ call.outcome = "expression" => LabelCount(call.vars) = Len(ext)
    /\ LabelCount(call.vars) # Len(ext) => call.outcome = "label_error"

\* C7 (amended): in a build without NDEBUG, on an initialised array, the
\* call gives an expression exactly when the number of comma-separated
\* labels equals the rank and is a fatal error otherwise; in a build with
\* NDEBUG, or on an uninitialised array, it gives an expression for every
\* string.
C7_LabelCountEnforcedInDebugBuilds ==
  call.op = "call_vars" =>
    IF ~ndebug /\ pimpl_ = "impl"
      THEN /\ call.outcome = "expression" <=> LabelCount(call.vars) = Len(ext)
           /\ call.outcome = "label_error" <=> LabelCount(call.vars) # Len(ext)
      ELSE call.outcome = "expression"

\* C7 witness: a debug build has rejected two labels on an array of rank 1.
C7_Witness ==
  /\ ~ndebug
  /\ pimpl_ = "impl"
  /\ call.op = "call_vars"
  /\ LabelCount(call.vars) = 2
  /\ Len(ext) = 1
  /\ call.outcome = "label_error"

(***************************************************************************)
(* Claims about set and fill, checked under SpecFill.                      *)
(***************************************************************************)
\* C4: a set of a tile that has been assigned already, made without
\* skip_set, raises the double-set error; a fill_local/init_tiles call with
\* skip_set = true does nothing for a tile that an earlier set or fill had
\* assigned when the call was made: it schedules no task for the tile, calls
\* no set on it and raises no error on it, whether or not the earlier
\* fill's task has produced the tile yet.
C4_DoubleSetDetectedSkipSetNoOp ==
  /\ (fRec.op = "set" /\ fRec.start # {}) => fRec.error = "already_set"
  /\ (fRec.op = "init_tiles" /\ ~fRec.skip) =>
       \A t \in fRec.start \cap fRec.setCalled : fRec.errTile = t
  /\ (fRec.op = "init_tiles" /\ fRec.skip) =>
       \A t \in fRec.start :
         /\ t \notin fRec.scheduled
         /\ t \notin fRec.setCalled
         /\ fRec.errTile # t

\* The last call was init_tiles without skip_set on an array none of whose
\* tiles had been assigned, and it has returned.
FirstInitTilesDone ==
  /\ fRec.op = "init_tiles"
  /\ ~fRec.skip
  /\ fRec.start = {}
  /\ ~fLoop.active

\* One task for each local non-zero tile, its future bound to the tile;
\* nothing for a zero or non-local tile.
OneTaskPerLocalNonZero ==
  /\ fRec.scheduled = fLocal \ fZero
  /\ fRec.setCalled = fLocal \ fZero
  /\ fRec.error = "none"
  /\ \A t \in Tiles :
       /\ Cardinality({task \in fTasks : task.index = t}) =
            (IF fTile[t] = "pending" THEN 1 ELSE 0)
       /\ \A task \in fTasks : task.index = t => task.bound
       /\ IF t \in fLocal \ fZero THEN Assigned(t) ELSE ~Assigned(t)

\* C24: init_tiles(op, skip_set = false) on an array with no tile set
\* schedules exactly one task for each local non-zero tile and binds the
\* tile to the task's future, and does nothing for zero and non-local
\* tiles; and when the tasks are run, every tile bound to a task is
\* eventually set to the value the task's op produces.
C24_InitTilesSchedulesOneTaskPerTileAndTilesGetSet ==
  /\ [](FirstInitTilesDone => OneTaskPerLocalNonZero)
  /\ \A t \in Tiles, v \in FillValues :
       (\E task \in fTasks : task.bound /\ task.index = t /\ task.value = v)
         ~> (fTile[t] = "ready" /\ fVal[t] = v)

\* init_tiles has returned on an array with two local non-zero tiles, one
\* task has run and the other is still queued.
C24_Witness ==
  /\ FirstInitTilesDone
  /\ Cardinality(fLocal \ fZero) = NTiles
  /\ \E t \in Tiles : fTile[t] = "ready" /\ fVal[t] = 2
  /\ \E t \in Tiles : fTile[t] = "pending"

(***************************************************************************)
(* Claims about make_replicated, checked under SpecRepl.                   *)
(***************************************************************************)
\* The value tile i had before replication: the one its owner held.
Before(i) ==
  rOld[IF rKind0 = "replicated" THEN 0
       ELSE owner(MakePmap(rKind0, 0, nprocs, NTiles), i)][i]

\* What C8 says of tiles, whatever the world and the map: on a rank that
\* has passed the fence every tile is local and every non-zero tile reads
\* as it was before the call, the same on all such ranks.
TilesReplicated(r) ==
  /\ \A i \in Tiles : is_local(rPmap[r], i) = TRUE
  /\ \A i \in Tiles \ rZero :
       /\ find_get(r, i) = Before(i)
       /\ find_get(r, i) # 0
       /\ \A q \in Ranks : rPc[q] = "fenced" => find_get(q, i) = find_get(r, i)

\* C8 as stated: for every world size P >= 1 and every initial process
\* map, after make_replicated() and the fence every rank has every tile
\* local, the array's pmap reports is_replicated, and every non-zero tile
\* reads the same on every rank, as it was before replication.
C8_ReplicatedForEveryWorldAndMap ==
  \A r \in Ranks : rPc[r] = "fenced" =>
    TilesReplicated(r) /\ is_replicated(rPmap[r])

\* C8: after make_replicated() and the fence every rank has every tile
\* local and every non-zero tile reads the same on every rank, as it was
\* before replication; the array's pmap reports is_replicated exactly when
\* the world has two or more ranks or the map was replicated before the
\* call (on one rank, or on an already replicated map, the call does
\* nothing).
C8_ReplicatedUnlessSingleRank ==
  \A r \in Ranks : rPc[r] = "fenced" =>
    /\ TilesReplicated(r)
    /\ is_replicated(rPmap[r]) <=> (nprocs >= 2 \/ rKind0 = "replicated")
    /\ (nprocs = 1 \/ rKind0 = "replicated") =>
         rUse[r] = "old" /\ rPmap[r] = MakePmap(rKind0, r, nprocs, NTiles)

\* Two ranks with a blocked map: rank 0 has passed the fence and reads the
\* tile that rank 1 owned before.
C8_Witness ==
  /\ nprocs = 2
  /\ rKind0 = "blocked"
  /\ rZero = {}
  /\ rPc[0] = "fenced"
  /\ rUse[0] = "new"
  /\ rOld[0][1] = 0
  /\ find_get(0, 1) = rOld[1][1]
  /\ rOld[1][1] = 2

\* Rank r makes a call of make_replicated in this step.
CallsMakeReplicated(r) ==
  rPc[r] \in {"start", "fenced"} /\ rPc'[r] \in {"called", "recalled"}

\* C27: make_replicated does nothing when the array's process map is
\* replicated already or the world has a single rank, so that a second call
\* does nothing; when it replaces the implementation the new array has the
\* size of the old one and a replicated map, its zero tiles are the old
\* array's zero tiles, and no tile of the old implementation is changed.
C27_MakeReplicatedNoOpWhenReplicatedOrSingleRank ==
  /\ [][\A r \in Ranks : CallsMakeReplicated(r) =>
          /\ (is_replicated(rPmap[r]) \/ nprocs = 1) =>
               /\ rPmap' = rPmap /\ rUse' = rUse
               /\ rTodo' = rTodo /\ rNew' = rNew
          /\ ~(is_replicated(rPmap[r]) \/ nprocs = 1) =>
               /\ rUse'[r] = "new"
               /\ is_replicated(rPmap'[r])
               /\ rPmap'[r].size_ = rPmap[r].size_
          /\ rOld' = rOld /\ rZero' = rZero]_vars
  /\ [](\A r \in Ranks : \A t \in rZero : rNew[r][t] = 0)
  /\ [](\A r \in Ranks : rPc[r] = "recalled" => rTodo[r] = {})

\* Two ranks with a blocked map: rank 0 has replaced its implementation,
\* passed the fence and called make_replicated again.
C27_Witness ==
  /\ nprocs = 2
  /\ rKind0 = "blocked"
  /\ rPc[0] = "recalled"
  /\ rUse[0] = "new"
  /\ is_replicated(rPmap[0])
  /\ \A t \in Tiles \ rZero : rNew[0][t] # 0

(***************************************************************************)
(* Claims about process maps, checked under SpecPmap.                      *)
(***************************************************************************)
\* Two successive owner queries of one tile below size.
TwoOwnerQueries ==
  /\ pCall.op = "owner" /\ pPrev.op = "owner"
  /\ pCall.tile = pPrev.tile
  /\ pCall.tile < pSize

\* C9 as stated: for every process map, the replicated one included, and
\* every tile i < size, owner(i) gives the same rank on any two ranks, and
\* repeated calls on one rank give the same value.
C9_OwnerAgreesAcrossRanks ==
  TwoOwnerQueries => pCall.ans = pPrev.ans

\* C9: for the replicated map and every tile i < size, repeated owner(i)
\* calls on one rank give the same value, and owner(i) evaluated on rank r
\* gives r, so that on two different ranks the values differ.
C9_ReplicatedOwnerIsCallingRank ==
  pKind = "replicated" =>
    /\ (TwoOwnerQueries /\ pCall.rank = pPrev.rank) => pCall.ans = pPrev.ans
    /\ (TwoOwnerQueries /\ pCall.rank # pPrev.rank) => pCall.ans # pPrev.ans
    /\ (pCall.op = "owner" /\ pCall.tile < pSize) => pCall.ans = pCall.rank

\* The replicated map: two ranks name different owners of one tile.
C9_Witness ==
  /\ pKind = "replicated"
  /\ TwoOwnerQueries
  /\ pCall.rank # pPrev.rank
  /\ pCall.ans # pPrev.ans

\* C10: for the replicated map on rank r with size n, is_local(i) is true
\* exactly for the i < n with owner(i) = r, owner(i) lies in [0, procs),
\* and the local iteration sequence is 0, 1, ..., n-1: every index once,
\* in increasing order.
C10_ReplicatedMapLocalSet ==
  pKind = "replicated" =>
    /\ (/\ pCall.op = "is_local" /\ pPrev.op = "owner"
        /\ pCall.rank = pPrev.rank /\ pCall.tile = pPrev.tile
        /\ pCall.tile < pSize)
         => (pCall.ans = TRUE <=> pPrev.ans = pCall.rank)
    /\ (pCall.op = "is_local" /\ pCall.tile < pSize) => pCall.ans = TRUE
    /\ (pCall.op = "owner" /\ pCall.tile < pSize)
         => (0 <= pCall.ans /\ pCall.ans < nprocs)
    /\ pCall.op = "iterate" => pCall.ans = [k \in 1 .. pSize |-> k - 1]

\* Rank 1 of two iterates its replicated map of two tiles after asking for
\* the owner of a tile.
C10_Witness ==
  /\ pKind = "replicated"
  /\ nprocs = 2 /\ pSize = 2
  /\ pPrev.op = "owner" /\ pPrev.rank = 1 /\ pPrev.ans = 1
  /\ pCall.op = "iterate" /\ pCall.rank = 1
  /\ pCall.ans = <<0, 1>>

(***************************************************************************)
(* Claims about construction, checked under SpecCtor.                      *)
(***************************************************************************)
\* The constructor arguments meet what C11 asks of a constructed array.
ArgsMeetContract ==
  /\ cCall.pmap # NoPmap =>
       /\ cCall.pmap.size_ = Volume(cCall.trange)
       /\ cCall.pmap.rank_ = cRank
       /\ cCall.pmap.procs_ = nprocs
  /\ ~cCall.shape.empty
  /\ cCall.shape.kind = "sparse" => cCall.shape.range = cCall.trange

\* C11: every array that is constructed has a process map whose size is the
\* number of tiles of its TiledRange and whose rank and process count are
\* the world's, and a non-empty shape whose range is the tile range; when
\* the constructor arguments fail any of these, construction raises a user
\* error and no implementation is created.
C11_ConstructedArrayIsConsistent ==
  cCall.op # "none" =>
    /\ cCall.impl.made =>
         /\ cCall.error = "none"
         /\ cCall.impl.pmap.size_ = Volume(cCall.impl.trange)
         /\ cCall.impl.pmap.rank_ = cRank
         /\ cCall.impl.pmap.procs_ = nprocs
         /\ ~cCall.impl.shape.empty
         /\ cCall.impl.shape.kind = "sparse" =>
              cCall.impl.shape.range = cCall.impl.trange
    /\ ~ArgsMeetContract => (cCall.error # "none" /\ ~cCall.impl.made)
    /\ ArgsMeetContract => cCall.impl.made

\* The sparse constructor on rank 1 of two is refused a map built for rank 0.
C11_Witness ==
  /\ cCall.op = "sparse_ctor"
  /\ nprocs = 2 /\ cRank = 1
  /\ cCall.pmap # NoPmap
  /\ cCall.pmap.size_ = Volume(cCall.trange)
  /\ cCall.pmap.rank_ = 0 /\ cCall.pmap.procs_ = 2
  /\ ~cCall.shape.empty /\ cCall.shape.range = cCall.trange
  /\ cCall.error = "pmap_rank"
  /\ ~cCall.impl.made

(***************************************************************************)
(* Claims about the contraction evaluator, checked under SpecSumma.        *)
(***************************************************************************)
\* reference.block(range.start()[0], range.start()[1], ...): the block of
\* the reference product, or of its transpose, at a tile's coordinates.
ReferenceBlock(perm, range) ==
  Reference(sLz, sRz, IF perm THEN range[1] ELSE range[2], SK)

\* C12: for dense arguments, after eval() and wait() every locally owned
\* output tile obtained by move(i) is non-empty, has the range
\* make_tile_range(i) and equals the block of the reference product L*R
\* (of its transpose under the permutation (1,0)), whatever the order in
\* which stripes arrived and GEMMs ran.
C12_DenseResultEqualsReference ==
  (sLz = {} /\ sRz = {} /\ sGot.index >= 0) =>
    /\ ~sGot.tile.empty
    /\ sGot.tile.range = make_tile_range(sPerm, sGot.index)
    /\ sGot.tile.value = ReferenceBlock(sPerm, sGot.tile.range)

\* A dense transposed contraction: the right stripes arrived before the
\* left ones, and tile 1 has been moved out.
C12_Witness ==
  /\ sLz = {} /\ sRz = {} /\ sPerm
  /\ sLocal = Cols
  /\ sGot.index = 1
  /\ sGot.tile.range = <<1, 0>>
  /\ sGot.tile.value = Reference({}, {}, 1, SK)
  /\ sGot.tile.value > GemmTerm(0, 1)

\* C14: the output future of every locally owned non-zero output tile is
\* set at most once, and once wait() has returned exactly once; it is set
\* only when every stripe k with L[i,k] and R[k,j] both non-zero has been
\* accumulated, never while such a stripe is outstanding.
C14_OutputSetOnceAfterLastStripe ==
  \A j \in LocalNonZero :
    /\ sOut[j].sets <= 1
    /\ sOut[j].sets > 0 =>
         \A k \in Stripes : Contributes(j, k) => <<j, k>> \in sDone
    /\ sPc = "waited" => sOut[j].sets = 1

\* Tile 0 has had one of its two contributing stripes accumulated and its
\* future is not set; tile 1 is complete and set.
C14_Witness ==
  /\ 0 \in LocalNonZero /\ 1 \in LocalNonZero
  /\ Contributes(0, 0) /\ Contributes(0, 1)
  /\ <<0, 1>> \in sDone /\ <<0, 0>> \notin sDone
  /\ sOut[0].sets = 0
  /\ sOut[1].sets = 1

\* C15: when every input tile is eventually delivered, wait() eventually
\* returns after eval(), and when it has returned every locally owned
\* non-zero output tile future is set.
C15_WaitReturnsWithOutputsSet ==
  /\ (sPc = "evaluating") ~> (sPc = "waited")
  /\ [](sPc = "waited" => \A j \in LocalNonZero : sOut[j].sets > 0)

\* wait() has returned on a rank that owns every output tile, none of them
\* zero, with a zero left tile in stripe 0.
C15_Witness ==
  /\ sPc = "waited"
  /\ LocalNonZero = Cols
  /\ sLz = {0}
  /\ \A j \in Cols : sOut[j].sets > 0

(***************************************************************************)
(* Claims about the sparse contraction, checked under SpecSparse.          *)
(***************************************************************************)
\* The checks of the test sparse_eval for tile j: a tile the result shape
\* declares zero has an all-zero reference block, a tile it does not
\* declare zero equals its reference block once produced.
SparseChecksPass ==
  /\ (nRes.phase # "none" /\ nRes.zero) =>
       Reference(LeftZeros, RightZeros, nCol, SK) = 0
  /\ (nRes.phase = "evaluated" /\ ~nRes.zero) =>
       nRes.value = Reference(LeftZeros, RightZeros, nCol, SK)

C16_DependencyCountedAndNotifiedOnce ==
  /\ fPc # "idle" => (fTask # NoTask /\ ~fProbed)
  /\ fIncs = fCallbacks + fNotified + (IF fPc = "register" THEN 1 ELSE 0)
  /\ fCounter = fBase + fIncs - fNotified
  /\ ~fSet => (fNotified = 0 /\ fCounter = fBase + fIncs)
  /\ (~fSet /\ fIncs > 0) => fCounter > 0
  /\ (fSet /\ fPc = "idle") => (fCallbacks = 0 /\ fCounter = fBase)

\* The future was set between the probe and the registration; the callback
\* was notified at registration and the counter is back at its first value.
C16_Witness ==
  /\ fSet
  /\ fPc = "idle"
  /\ fIncs = 1
  /\ fCallbacks = 0
  /\ fNotified = 1
  /\ ~fProbed
  /\ fCounter = fBase

(***************************************************************************)
(* Claims about Shape::ord and Shape::coord, checked under SpecShape.      *)
(***************************************************************************)
\* The two round trips: ord(coord(k)) = k for k below the volume, and
\* coord(ord(c)) = c for c in the box.
ShapeRoundTrips ==
  /\ (oCall.op = "coord" /\ oCall.arg < nelements(oLow, oHigh, 0)) =>
       /\ ~oCall.out.failed /\ ~oCall.back.failed
       /\ includes(oLow, oHigh, oCall.out.value)
       /\ oCall.back.value = oCall.arg
  /\ (oCall.op = "ord" /\ includes(oLow, oHigh, oCall.arg)) =>
       /\ ~oCall.out.failed /\ ~oCall.back.failed
       /\ oCall.out.value < nelements(oLow, oHigh, 0)
       /\ oCall.back.value = oCall.arg

RECURSIVE Accepted(_)
Accepted(k) ==
  IF k >= nelements(oLow, oHigh, 0) THEN <<>>
  ELSE LET c == coord(oLow, oHigh, m_linear_step, k).value
       IN (IF pred(m_pred, c) THEN <<c>> ELSE <<>>) \o Accepted(k + 1)

\* While the ordinal is not -1 the cached tuple is coord(ordinal); the
\* ordinal is the number of increments made and -1 after volume of them;
\* a finished iteration has yielded the accepted tuples, each once, in
\* increasing ordinal order.
IteratorFollowsOrdinals ==
  /\ (itPc = "iterating" /\ m_current # -1) =>
       m_value = coord(oLow, oHigh, m_linear_step, m_current).value
  /\ itPc \in {"iterating", "done"} =>
       m_current = (IF itSteps < nelements(oLow, oHigh, 0) THEN itSteps
                    ELSE -1)
  /\ itPc = "done" =>
       itOut = Accepted(0) /\ itSteps = nelements(oLow, oHigh, 0)

\* C30: an iteration over a non-empty box from begin() to end() runs with
\* the cached tuple equal to coord(ordinal) while the ordinal is not -1,
\* the ordinal going up by one per increment and becoming -1 after exactly
\* volume increments, and yields every tuple the predicate accepts exactly
\* once, in increasing ordinal order.
C30_IterationYieldsAcceptedTuplesInOrder ==
  /\ IteratorFollowsOrdinals
  /\ itPc # "abort"

ScalarsOf(i) ==
  LET x == tData[range_ord(tContig, tStride, i)]
  IN IF tNested THEN x ELSE <<x>>

RECURSIVE FoldSeq(_, _, _)
FoldSeq(op, acc, s) ==
  IF s = <<>> THEN acc
  ELSE FoldSeq(op, reduce_op(op, acc, Head(s)), Tail(s))

\* The reduction over every scalar of the first n elements, from identity.
RECURSIVE ReductionOfAll(_)
ReductionOfAll(n) ==
  IF n = 0 THEN Identity(tOp)
  ELSE FoldSeq(tOp, ReductionOfAll(n - 1), ScalarsOf(n - 1))

\* C19 for the three overloads other than the non-contiguous tensor of
\* tensors: the value returned is the reduction over all elements.
ReduceReturnsReductionUnlessStridedNested ==
  (tCall.op = "tensor_reduce" /\ ~(tNested /\ ~tContig)) =>
    tCall.out = ReductionOfAll(tBlocks * tStride)

\* C19: for each of the four tensor_reduce variants, on a non-empty
\* argument, the value returned equals the reduction of reduce_op over all
\* elements from identity, so that the contiguous and the non-contiguous
\* variant return the same value for the same element data.
C19_ReduceReturnsReduction ==
  tCall.op = "tensor_reduce" => tCall.out = ReductionOfAll(tBlocks * tStride)

(***************************************************************************)
(* Claims about Mult and ScalMult, checked under SpecMult.                 *)
(***************************************************************************)
ZeroArgument == mLeft.zero \/ mRight.zero

\* C20 as stated: Mult and ScalMult, given ZeroTensor as either argument,
\* with or without a permutation, return a result tile without failing an
\* assertion.
C20_ZeroTensorShortCircuits ==
  (mCall.op # "none" /\ ZeroArgument) => ~mCall.out.failed

\* C20: Mult and ScalMult, given ZeroTensor as either argument, with or
\* without a permutation, fail the assertion of the overload and multiply
\* nothing: the tile behind the assertion is the default-constructed one.
\* Given two tiles they fail no assertion and return the element-wise
\* product times the factor, transposed when a permutation is given.
C20_ZeroTensorIsInvalidArgument ==
  /\ (mCall.op # "none" /\ ZeroArgument) =>
       (mCall.out.failed /\ DOMAIN mCall.out.tile = {})
  /\ (mCall.op # "none" /\ ~ZeroArgument) =>
       /\ ~mCall.out.failed
       /\ \A i, j \in 0 .. 1 :
            mCall.out.tile[IF mCall.op = "perm" THEN 2 * j + i ELSE 2 * i + j]
              = mLeft.data[2 * i + j] * mRight.data[2 * i + j] * mFactor

\* A permuting ScalMult call whose right argument is the ZeroTensor.
C20_Witness ==
  /\ mCall.op = "perm"
  /\ mScal
  /\ mRight.zero
  /\ ~mLeft.zero
  /\ mCall.out.failed

(***************************************************************************)
(* Claims about in-place multiplication, checked under SpecMult.           *)
(***************************************************************************)
\* The argument is marked consumable for the call made and has the type of
\* the result: by the template flag, or by consume_left / consume_right
\* for the argument that names.
LeftQualifies ==
  IF mCall.op = "consume_left" THEN mLTrait /\ mLSame ELSE mLC
RightQualifies ==
  IF mCall.op = "consume_right" THEN mRTrait /\ mRSame ELSE mRC

\* What C21 says of every call that multiplies two tiles, but for the
\* choice between two arguments that both qualify.
InPlaceOnlyIfQualified ==
  (mCall.op # "none" /\ ~mCall.out.failed) =>
    /\ mCall.modified = "left" => LeftQualifies
    /\ mCall.modified = "right" => RightQualifies
    /\ mCall.op = "perm" => mCall.modified = "none"
    /\ \A i, j \in 0 .. 1 :
         mCall.out.tile[IF mCall.op = "perm" THEN 2 * j + i ELSE 2 * i + j]
           = mLeft.data[2 * i + j] * mRight.data[2 * i + j] * mFactor

\* C21 as stated: an argument is multiplied in place only if it is marked
\* consumable and has the result type, the permuting call modifies
\* neither, the tile returned is the scaled element-wise product of the
\* original values, and when both arguments qualify it is the left one
\* that is modified.
C21_InPlaceLeftWhenBothQualify ==
  /\ InPlaceOnlyIfQualified
  /\ (mCall.op \in {"plain", "consume_left", "consume_right"}
        /\ ~mCall.out.failed /\ LeftQualifies /\ RightQualifies) =>
       mCall.modified = "left"

\* C21: the same, with the left argument modified when both qualify in
\* operator() and consume_left, and the right one in consume_right.
C21_InPlaceNamedArgumentWhenBothQualify ==
  /\ InPlaceOnlyIfQualified
  /\ (mCall.op \in {"plain", "consume_left"}
        /\ ~mCall.out.failed /\ LeftQualifies /\ RightQualifies) =>
       mCall.modified = "left"
  /\ (mCall.op = "consume_right"
        /\ ~mCall.out.failed /\ LeftQualifies /\ RightQualifies) =>
       mCall.modified = "right"

\* consume_right on two tiles that both qualify, under ScalMult.
C21_Witness ==
  /\ mCall.op = "consume_right"
  /\ mScal
  /\ ~mCall.out.failed
  /\ mLC /\ mRTrait /\ mRSame /\ ~mConst
  /\ mCall.modified = "right"

(***************************************************************************)
(* Claims about LeafEngine, checked under SpecLeaf.                        *)
(***************************************************************************)
\* The target is a rearrangement of the stored label list.
IsRearrangement(target, stored) ==
  /\ Len(target) = Len(stored)
  /\ \E f \in [1 .. Len(stored) -> 1 .. Len(stored)] :
       /\ \A a, b \in 1 .. Len(stored) : f[a] = f[b] => a = b
       /\ \A a \in 1 .. Len(stored) : target[a] = stored[f[a]]

\* init_vars(target) succeeds for every permutation of the stored labels,
\* and no call changes the stored list.
LeafAcceptsPermutationsAndKeepsLabels ==
  /\ (lCall.op = "init_vars" /\ IsRearrangement(lCall.arg, vars_)) =>
       lCall.outcome = "ok"
  /\ lCall.op # "none" => vars_ = lCall.before

\* C22 as stated: init_vars(target) succeeds for every target that is a
\* permutation of the stored labels and is a fatal error for every target
\* that is not; no call changes the stored label list.
C22_LeafRejectsNonPermutations ==
  /\ LeafAcceptsPermutationsAndKeepsLabels
  /\ (lCall.op = "init_vars" /\ ~IsRearrangement(lCall.arg, vars_)) =>
       lCall.outcome = "exception"

\* C22: the same, the fatal error being raised in a build without NDEBUG
\* only; with NDEBUG defined init_vars accepts every target.
C22_LeafRejectsNonPermutationsInDebugBuilds ==
  /\ LeafAcceptsPermutationsAndKeepsLabels
  /\ (lCall.op = "init_vars" /\ ~IsRearrangement(lCall.arg, vars_)) =>
       (lCall.outcome = "exception" <=> ~lNdebug)

\* A debug build rejects a target of the right length with one label that
\* the leaf does not store.
C22_Witness ==
  /\ ~lNdebug
  /\ lCall.op = "init_vars"
  /\ Len(lCall.arg) = Len(vars_)
  /\ Len(vars_) > 1
  /\ lCall.arg[1] = vars_[2]
  /\ \A b \in 1 .. Len(vars_) : lCall.arg[2] # vars_[b]
  /\ lCall.outcome = "exception"

(***************************************************************************)
(* Claims about one call of lazy_deleter, checked under SpecDeleter.       *)
(***************************************************************************)
\* C23: with the runtime not initialised lazy_deleter deletes the
\* implementation in the call itself, hands nothing to lazy_sync and leaves
\* the pending-cleanup counter as it was; with a null pointer it deletes
\* nothing, hands nothing to lazy_sync and leaves the counter as it was.
C23_UninitialisedDeletesNowNullDoesNothing ==
  dCall.op = "lazy_deleter" =>
    /\ (dPimpl # "null" /\ ~dInit) =>
         /\ dCall.effect.delNow = 1
         /\ ~dCall.effect.reg
         /\ dCall.effect.path = "uninit"
         /\ dCall.effect.inc = 0 /\ dCall.effect.dec = 0
         /\ dCall.counter = dCounter
    /\ dPimpl = "null" =>
         /\ dCall.effect.delNow = 0
         /\ ~dCall.effect.reg
         /\ dCall.effect.inc = 0 /\ dCall.effect.dec = 0
         /\ dCall.counter = dCounter

\* A call on an implementation with the runtime torn down and cleanups of
\* other arrays still pending.
C23_Witness ==
  /\ dCall.op = "lazy_deleter"
  /\ dPimpl = "impl"
  /\ ~dInit
  /\ dCounter > 0
  /\ dCall.effect.delNow = 1

(***************************************************************************)
(* Claims about handles, checked under SpecShare.                          *)
(***************************************************************************)
\* The live handles that refer to implementation i.
Referring(i) == {h \in Handles : hAlive[h] /\ hPimpl[h] = i}

\* C28: copy construction, assignment and swap make and remove no tile
\* data; after b = a both handles refer to the same implementation; and
\* lazy_deleter has been called on an implementation once when no live
\* handle on the rank refers to it and not at all while one does.
C28_HandlesShareAndDeleterRunsOnceAtLastDrop ==
  /\ [][hLast'.op \in {"copy", "assign", "swap"} => hTiles' = hTiles]_vars
  /\ [](hLast.op = "assign" => hPimpl[hLast.this] = hPimpl[hLast.other])
  /\ [](hLast.op = "copy" => hPimpl[hLast.this] = hPimpl[hLast.other])
  /\ [](\A i \in Impls :
          /\ hUse[i] = Cardinality(Referring(i))
          /\ hDeleter[i] = (IF Referring(i) = {} THEN 1 ELSE 0))

\* An assignment b = a has given up the last handle to b's implementation:
\* both handles refer to a's, and lazy_deleter has been called once on b's
\* and not on a's.
C28_Witness ==
  /\ hLast.op = "assign"
  /\ hPimpl[hLast.this] # 0
  /\ hUse[hPimpl[hLast.this]] = 2
  /\ \E i \in Impls : hDeleter[i] = 1 /\ Referring(i) = {}

\* C26: the task init_tiles added never reads through a handle that no
\* longer refers to the live implementation init_tiles was called on,
\* however the handle was destroyed, reassigned or swapped before the task
\* ran.
C26_TaskReadsOnlyItsLiveImplementation ==
  hTask.state = "ran" => hTask.deref = "same"

(***************************************************************************)
(* Claims about tilearray_future_get_tile, checked under SpecParsec.       *)
(***************************************************************************)
\* A call returns the pointer and registers nothing when the future is set,
\* and returns NULL with a callback registered otherwise.
GetTileAnswers ==
  \A t \in PTasks :
    /\ gCall[t].res = "pointer" => gSet /\ ~gCall[t].registered
    /\ gCall[t].res = "NULL" => gCall[t].registered

\* A task is scheduled again only once the future is set, at most once and
\* only if it got NULL; a task that got NULL is scheduled again by the time
\* the future is set and its call has returned.
RescheduledOnceAfterSet ==
  \A t \in PTasks :
    /\ gResched[t] <= 1
    /\ gResched[t] = 1 => gSet /\ gCall[t].first = "NULL"
    /\ (gSet /\ gCall[t].first = "NULL" /\ gPc[t] # "register") =>
         gResched[t] = 1

\* C29: tilearray_future_get_tile returns the data pointer and registers no
\* callback when the future is set, and returns NULL after registering a
\* reschedule callback otherwise; a task that got NULL is scheduled again
\* exactly once, only after the future is set and never while its body is
\* still executing; a task that got the pointer is never scheduled again.
C29_RescheduledOnceAfterSetNeverWhileExecuting ==
  /\ GetTileAnswers
  /\ RescheduledOnceAfterSet
  /\ \A t \in PTasks : ~gWhile[t]

====
